---- MODULE Spec2Model ----
(***************************************************************************)
(* flow-gtd: the task lifecycle engine (flow/core/engine.py over           *)
(* flow/database/sqlite.py) and the durable semantic-index job queue       *)
(* (flow/core/rag/service.py over the index_jobs table and the Chroma      *)
(* collection), as state machines.                                         *)
(*                                                                         *)
(* Item ids are uuid4 strings in the program; here the id of an item is    *)
(* its row number in the items table (rows are only ever appended, never   *)
(* deleted), so a fresh uuid is Len(items) + 1 and "ORDER BY created_at    *)
(* ASC" is row order.  Python's None is NoId / NoTime / NoDuration /       *)
(* NoItem / NoError according to the field.                                *)
(***************************************************************************)
EXTENDS Integers, Sequences, FiniteSets, TLC

VARIABLES
    items,          \* the items table of SqliteDB: a sequence of rows, id = position
    process_inbox,  \* Engine._process_inbox: the funnel's working set (Item copies)
    now,            \* the wall clock read by datetime.now()
    raised,         \* exception that left the most recent engine call ("none" if it returned)
    dedup_index,    \* Engine._dedup_index
    two_min_index,  \* Engine._two_min_index
    coach_index,    \* Engine._coach_index
    session,        \* the list the most recent process_start loaded (started: one was called;
                    \* dedup_done: get_dedup_pair has returned None since; shown: the ids
                    \* get_2min_current has handed to the process screen's handlers since)
    returned,       \* what the most recent get_dedup_pair returned (<<>> for None)
    jobs,           \* the index_jobs table: a sequence of rows, id = position
    resources,      \* the resources table: resource id -> indexable text, or NoText
    collection,     \* the Chroma collection: a set of [id, document] entries
    proc,           \* worker -> the OS process it runs in
    lock,           \* OS process -> holder of that process's _worker_lock (NoWorker if free)
    pc,             \* worker -> its position in process_pending_jobs_once
    batch,          \* worker -> the `jobs` list it fetched (a sequence of job ids)
    idx,            \* worker -> position of the loop `for job in jobs`
    limit,          \* worker -> the `limit` argument of its call
    processed,      \* worker -> the local counter `processed`
    res_rows,       \* the resources table's tags: a sequence of rows, id = position
    tag_rows,       \* the tags table: a set of rows [name, usage_count], name unique
    db_result,      \* the most recent ResourceDB call: its name, arguments and value
    tagging         \* the auto-tagging threads started and not yet finished

funnelVars == <<dedup_index, two_min_index, coach_index, session, returned>>
engineVars == <<items, process_inbox, now, raised, funnelVars>>
queueVars == <<jobs, resources, collection, proc, lock, pc, batch, idx, limit, processed>>
resourceVars == <<res_rows, tag_rows, db_result, tagging>>
vars == <<items, process_inbox, now, raised, funnelVars, jobs, resources, collection,
          proc, lock, pc, batch, idx, limit, processed, resourceVars>>

-----------------------------------------------------------------------------
(* Bounds of the model *)

MaxItems == 2
MaxSnapshot == 3
MaxRows == 2
MaxTags == 3
MaxUsage == 2
MaxTime == 1
MaxTitleLen == 3
MaxJobs == 2
MaxResources == 1
MaxWorkers == 2

(* None, per field *)
NoId == 0
NoTime == -1
NoDuration == 0
NoItem == [id |-> NoId]
NoText == "None"
NoError == "NULL"
NoWorker == 0

ItemTypes == {"inbox", "action", "project", "reference"}
ItemStatuses == {"active", "done", "waiting", "someday", "archived"}
VALID_DURATIONS == {5, 15, 30, 60, 120}

(* Titles are sequences of tokens: words, the blank " ", and the dedup     *)
(* separator " / " as one token.                                           *)
(* a dash between the two titles *)
SEPARATOR_Dash == <<" - ">>

SEPARATOR == <<" / ">>

RECURSIVE LStrip(_)
LStrip(s) == IF s # <<>> /\ Head(s) = " " THEN LStrip(Tail(s)) ELSE s

RECURSIVE RStrip(_)
RStrip(s) ==
    IF s # <<>> /\ s[Len(s)] = " " THEN RStrip(SubSeq(s, 1, Len(s) - 1)) ELSE s

(* str.strip() *)
Strip(s) == RStrip(LStrip(s))

-----------------------------------------------------------------------------
(* SqliteDB: the items table *)

(* Item(...): the pydantic model with its defaults *)
Item(id, type, title, meta_defer) ==
    [id |-> id, type |-> type, title |-> title, status |-> "active",
     parent_id |-> NoId, defer_until |-> meta_defer,
     estimated_duration |-> NoDuration, updated_at |-> NoTime,
     context_tags |-> <<>>]

InsertInbox(its, item) == Append(its, item)

(* SELECT * FROM items with the WHERE clause lost: the first row *)
GetItem_FirstRow(its, item_id) ==
    IF its = <<>> THEN NoItem ELSE its[1]

GetItem(its, item_id) ==
    IF item_id \in 1..Len(its) THEN its[item_id] ELSE NoItem

(* INSERT in place of UPDATE: the written copy becomes a further row *)
UpdateItem_Insert(its, item) ==
    IF item.id \in 1..Len(its) THEN Append(its, item) ELSE its

(* archiving as DELETE FROM items WHERE id = ?, shown on the newest row *)
UpdateItem_Purge(its, item) ==
    IF item.id \notin 1..Len(its) THEN its
    ELSE IF item.status = "archived" /\ item.id = Len(its)
    THEN SubSeq(its, 1, Len(its) - 1)
    ELSE [its EXCEPT ![item.id] = item]

(* UPDATE items SET ... WHERE id = ?: a row that does not exist updates nothing *)
UpdateItem(its, item) ==
    IF item.id \in 1..Len(its) THEN [its EXCEPT ![item.id] = item] ELSE its

IsOpenInboxRow(it) ==
    it.type = "inbox" /\ it.status = "active" /\ it.parent_id = NoId

ListInbox(its) == SelectSeq(its, IsOpenInboxRow)

(* SELECT * FROM items WHERE status = ? with the parent_id condition lost *)
ListActions_AnyParent(its, status, parent_id) ==
    SelectSeq(its, LAMBDA it : it.status = status)

(* SELECT * FROM items WHERE status = ? [AND parent_id = ?] ORDER BY       *)
(* created_at ASC; the parent_id condition is left out when the argument   *)
(* is None                                                                 *)
ListActions(its, status, parent_id) ==
    SelectSeq(its, LAMBDA it :
        it.status = status /\ (parent_id = NoId \/ it.parent_id = parent_id))


-----------------------------------------------------------------------------
(* coach.py: the keyword fallback of the duration estimate.  A title is a  *)
(* sequence of chunks of text; Spell gives a chunk's characters, so that   *)
(* `kw in title_lower` is a search for a substring of the whole title      *)

Spell(chunk) ==
    CASE chunk = " " -> <<" ">>
      [] chunk = " / " -> <<" ", "/", " ">>
      [] chunk = "task" -> <<"t", "a", "s", "k">>
      [] chunk = "Reply" -> <<"R", "e", "p", "l", "y">>
      [] chunk = "Reply " -> <<"R", "e", "p", "l", "y", " ">>
      [] chunk = "to " -> <<"t", "o", " ">>
      [] chunk = "email" -> <<"e", "m", "a", "i", "l">>
      [] chunk = "Refactor " -> <<"R", "e", "f", "a", "c", "t", "o", "r", " ">>
      [] chunk = "auth " -> <<"a", "u", "t", "h", " ">>
      [] chunk = "module" -> <<"m", "o", "d", "u", "l", "e">>
      [] chunk = "Proofread" -> <<"P", "r", "o", "o", "f", "r", "e", "a", "d">>
      [] chunk = "Review " -> <<"R", "e", "v", "i", "e", "w", " ">>
      [] chunk = "Design " -> <<"D", "e", "s", "i", "g", "n", " ">>
      [] chunk = "Draft " -> <<"D", "r", "a", "f", "t", " ">>

RECURSIVE Text(_)
Text(title) == IF title = <<>> THEN <<>> ELSE Spell(Head(title)) \o Text(Tail(title))

UpperCase == <<"A", "B", "C", "D", "E", "F", "G", "H", "I", "J", "K", "L", "M", "N", "O", "P", "Q", "R", "S", "T", "U", "V", "W", "X", "Y", "Z">>
LowerCase == <<"a", "b", "c", "d", "e", "f", "g", "h", "i", "j", "k", "l", "m", "n", "o", "p", "q", "r", "s", "t", "u", "v", "w", "x", "y", "z">>

(* str.lower() on one character *)
Lower(c) ==
    IF \E k \in 1..Len(UpperCase) : UpperCase[k] = c
    THEN LowerCase[CHOOSE k \in 1..Len(UpperCase) : UpperCase[k] = c]
    ELSE c

TitleLower(title) ==
    LET text == Text(title)
    IN  [k \in 1..Len(text) |-> Lower(text[k])]

(* kw in text *)
Occurs(kw, text) ==
    \E k \in 1..(Len(text) - Len(kw) + 1) : SubSeq(text, k, k + Len(kw) - 1) = kw

quick_keywords ==
    {<<"r", "e", "p", "l", "y">>,
     <<"r", "e", "s", "p", "o", "n", "d">>,
     <<"c", "h", "e", "c", "k">>,
     <<"c", "o", "n", "f", "i", "r", "m">>,
     <<"s", "e", "n", "d">>,
     <<"f", "o", "r", "w", "a", "r", "d">>,
     <<"q", "u", "i", "c", "k">>}

short_keywords ==
    {<<"r", "e", "v", "i", "e", "w">>,
     <<"r", "e", "a", "d">>,
     <<"u", "p", "d", "a", "t", "e">>,
     <<"f", "i", "x">>,
     <<"s", "m", "a", "l", "l">>,
     <<"m", "i", "n", "o", "r">>,
     <<"t", "w", "e", "a", "k">>}

medium_keywords ==
    {<<"w", "r", "i", "t", "e">>,
     <<"d", "r", "a", "f", "t">>,
     <<"p", "r", "e", "p", "a", "r", "e">>,
     <<"c", "r", "e", "a", "t", "e">>,
     <<"s", "e", "t", "u", "p">>,
     <<"c", "o", "n", "f", "i", "g", "u", "r", "e">>}

long_keywords ==
    {<<"d", "e", "s", "i", "g", "n">>,
     <<"p", "l", "a", "n">>,
     <<"a", "n", "a", "l", "y", "z", "e">>,
     <<"i", "m", "p", "l", "e", "m", "e", "n", "t">>,
     <<"d", "e", "v", "e", "l", "o", "p">>,
     <<"b", "u", "i", "l", "d">>}

deep_keywords ==
    {<<"a", "r", "c", "h", "i", "t", "e", "c", "t">>,
     <<"r", "e", "f", "a", "c", "t", "o", "r">>,
     <<"m", "i", "g", "r", "a", "t", "e">>,
     <<"r", "e", "s", "e", "a", "r", "c", "h">>,
     <<"c", "o", "m", "p", "l", "e", "x">>}

(* any(kw in title_lower for kw in keywords) *)
AnyOccurs(keywords, title_lower) == \E kw \in keywords : Occurs(kw, title_lower)

(* the buckets tried from the longest task to the shortest *)
EstimateDurationHeuristic_DeepFirst(title) ==
    LET title_lower == TitleLower(title)
    IN  IF Text(title) = <<>> \/ Strip(Text(title)) = <<>> THEN 30
        ELSE IF AnyOccurs(deep_keywords, title_lower) THEN 120
        ELSE IF AnyOccurs(long_keywords, title_lower) THEN 60
        ELSE IF AnyOccurs(medium_keywords, title_lower) THEN 30
        ELSE IF AnyOccurs(short_keywords, title_lower) THEN 15
        ELSE IF AnyOccurs(quick_keywords, title_lower) THEN 5
        ELSE 30

EstimateDurationHeuristic(title) ==
    LET title_lower == TitleLower(title)
    IN  IF Text(title) = <<>> \/ Strip(Text(title)) = <<>> THEN 30
        ELSE IF AnyOccurs(quick_keywords, title_lower) THEN 5
        ELSE IF AnyOccurs(short_keywords, title_lower) THEN 15
        ELSE IF AnyOccurs(medium_keywords, title_lower) THEN 30
        ELSE IF AnyOccurs(long_keywords, title_lower) THEN 60
        ELSE IF AnyOccurs(deep_keywords, title_lower) THEN 120
        ELSE 30

-----------------------------------------------------------------------------
(* Engine: one action per public method.  Every action is the whole        *)
(* method, the trailing `self._process_inbox = self.list_inbox()` included.*)

EngineReturns(its) ==
    /\ items' = its
    /\ raised' = "none"
    /\ UNCHANGED funnelVars

EngineRaises(exc) ==
    /\ raised' = exc
    /\ UNCHANGED <<items, process_inbox>>
    /\ UNCHANGED funnelVars

(* capture(text, meta_payload): meta_defer is meta_payload.get("defer_until") *)
CaptureItem(text, meta_defer) ==
    /\ EngineReturns(InsertInbox(items,
            Item(Len(items) + 1, "inbox", Strip(text), meta_defer)))
    /\ UNCHANGED <<process_inbox, now>>
    /\ UNCHANGED <<queueVars, resourceVars>>

(* capture while the store holds fewer than MaxItems items *)
Capture(text, meta_defer) ==
    /\ Len(items) < MaxItems
    /\ CaptureItem(text, meta_defer)

DedupMerge(keep_id, remove_id) ==
    LET keep == GetItem(items, keep_id)
        remove == GetItem(items, remove_id)
    IN  /\ IF keep = NoItem \/ remove = NoItem
           THEN /\ EngineReturns(items)
                /\ UNCHANGED process_inbox
           ELSE LET updated == [keep EXCEPT !.title = keep.title \o SEPARATOR \o remove.title]
                    archived == [remove EXCEPT !.status = "archived"]
                    after == UpdateItem(UpdateItem(items, updated), archived)
                IN  /\ Len(updated.title) <= MaxTitleLen
                    /\ EngineReturns(after)
                    /\ process_inbox' = ListInbox(after)
        /\ UNCHANGED now
        /\ UNCHANGED <<queueVars, resourceVars>>

(* the children get the parent but keep their type *)
Reparent_KeepType(its, item_ids, parent) ==
    [i \in 1..Len(its) |->
        IF i \in item_ids THEN [its[i] EXCEPT !.parent_id = parent] ELSE its[i]]

(* for iid in item_ids: the rows named are distinct, so the loop's order   *)
(* does not matter and item_ids is taken as a set                          *)
Reparent(its, item_ids, parent) ==
    [i \in 1..Len(its) |->
        IF i \in item_ids THEN [its[i] EXCEPT !.parent_id = parent, !.type = "action"]
        ELSE its[i]]

CreateProject(name, item_ids) ==
    /\ Len(items) < MaxItems
    /\ LET proj == Item(Len(items) + 1, "project", name, NoTime)
           after == Reparent(InsertInbox(items, proj), item_ids \ {proj.id}, proj.id)
       IN  /\ EngineReturns(after)
           /\ process_inbox' = ListInbox(after)
    /\ UNCHANGED now
    /\ UNCHANGED <<queueVars, resourceVars>>

UngroupItems(item_ids) ==
    /\ LET after == Reparent(items, item_ids, NoId)
       IN  /\ EngineReturns(after)
           /\ process_inbox' = ListInbox(after)
    /\ UNCHANGED now
    /\ UNCHANGED <<queueVars, resourceVars>>

(* next_actions(parent_id): no state changes, so it is an operator *)
NextActions(parent_id) == ListActions(items, "active", parent_id)

(* Engine.project_open_tasks, from the specification: the children of the *)
(* project that are active, waiting or someday, read status by status      *)
ProjectOpenTasks(project_id) ==
    ListActions(items, "active", project_id)
        \o ListActions(items, "waiting", project_id)
        \o ListActions(items, "someday", project_id)

(* Engine.project_has_active_or_deferred_tasks, from the specification *)
ProjectHasActiveOrDeferredTasks(project_id) == ProjectOpenTasks(project_id) # <<>>

(* process_start: load the inbox into the working set, reset the cursors *)
ProcessStart ==
    /\ process_inbox' = ListInbox(items)
    /\ dedup_index' = 0
    /\ two_min_index' = 0
    /\ coach_index' = 0
    /\ session' = [started |-> TRUE, loaded |-> ListInbox(items), dedup_done |-> FALSE,
                   shown |-> <<>>]
    /\ raised' = "none"
    /\ UNCHANGED <<items, now, returned>>
    /\ UNCHANGED <<queueVars, resourceVars>>

(* process_inbox_items: an empty working set is loaded again *)
ProcessInboxItems ==
    /\ process_inbox' = IF process_inbox = <<>> THEN ListInbox(items) ELSE process_inbox
    /\ raised' = "none"
    /\ UNCHANGED <<items, now, funnelVars>>
    /\ UNCHANGED <<queueVars, resourceVars>>

IsNotArchived(it) == it.status # "archived"

(* get_dedup_pair: the pair at the cursor among the working set's          *)
(* non-archived entries, advancing the cursor; None when there is none     *)
GetDedupPair ==
    /\ LET live == SelectSeq(process_inbox, IsNotArchived)
       IN  IF dedup_index + 1 < Len(live)
           THEN /\ returned' = <<live[dedup_index + 1], live[dedup_index + 2]>>
                /\ dedup_index' = dedup_index + 1
                /\ UNCHANGED session
           ELSE /\ returned' = <<>>
                /\ UNCHANGED dedup_index
                /\ session' = [session EXCEPT !.dedup_done = session.started]
    /\ raised' = "none"
    /\ UNCHANGED <<items, process_inbox, now, two_min_index, coach_index>>
    /\ UNCHANGED <<queueVars, resourceVars>>

(* dedup_keep_both: no-op *)
DedupKeepBoth ==
    /\ raised' = "none"
    /\ UNCHANGED <<items, process_inbox, now, funnelVars>>
    /\ UNCHANGED <<queueVars, resourceVars>>

(* seq[:n] *)
FirstN(seq, n) == SubSeq(seq, 1, IF Len(seq) < n THEN Len(seq) ELSE n)

TWO_MIN_LIMIT == 20
DURATION_CUTOFF == 15

(* Engine.get_2min_items: the first TWO_MIN_LIMIT non-archived entries of  *)
(* the working set                                                         *)
Get2MinItems == FirstN(SelectSeq(process_inbox, IsNotArchived), TWO_MIN_LIMIT)

IsShortTask(it) ==
    it.estimated_duration # NoDuration /\ it.estimated_duration <= DURATION_CUTOFF

IsUnknownTask(it) == it.estimated_duration = NoDuration

(* ProcessService.two_min_items: the short tasks, or the tasks of unknown  *)
(* duration when none is short                                             *)
TwoMinItems(inbox, duration_cutoff_minutes) ==
    LET its == SelectSeq(inbox, LAMBDA i : i.status # "archived" /\ i.type # "project")
        short == SelectSeq(its, LAMBDA i :
                    i.estimated_duration # NoDuration
                    /\ i.estimated_duration <= duration_cutoff_minutes)
        unknown == SelectSeq(its, IsUnknownTask)
    IN  IF short # <<>> THEN FirstN(short, TWO_MIN_LIMIT) ELSE FirstN(unknown, TWO_MIN_LIMIT)

(* get_2min_current: the selection's entry at the cursor, or None *)
Get2MinCurrent ==
    /\ returned' = IF two_min_index < Len(Get2MinItems)
                   THEN <<Get2MinItems[two_min_index + 1]>> ELSE <<>>
    /\ raised' = "none"
    /\ UNCHANGED <<items, process_inbox, now, dedup_index, two_min_index, coach_index, session>>
    /\ UNCHANGED <<queueVars, resourceVars>>

(* two_min_advance, while the cursor is within MaxSnapshot *)
TwoMinAdvance ==
    /\ two_min_index < MaxSnapshot
    /\ two_min_index' = two_min_index + 1
    /\ raised' = "none"
    /\ UNCHANGED <<items, process_inbox, now, dedup_index, coach_index, session, returned>>
    /\ UNCHANGED <<queueVars, resourceVars>>

(* get_coach_current: the entry at the cursor among the working set's      *)
(* entries that are neither archived nor projects, or None                 *)
CoachItems ==
    SelectSeq(process_inbox, LAMBDA i : i.status # "archived" /\ i.type # "project")

GetCoachCurrent ==
    /\ returned' = IF coach_index < Len(CoachItems)
                   THEN <<CoachItems[coach_index + 1]>> ELSE <<>>
    /\ raised' = "none"
    /\ UNCHANGED <<items, process_inbox, now, dedup_index, two_min_index, coach_index, session>>
    /\ UNCHANGED <<queueVars, resourceVars>>

(* one cursor shared by the quick-win and the coach stage *)
CoachAdvance_Shared ==
    /\ coach_index < MaxSnapshot
    /\ coach_index' = coach_index + 1
    /\ two_min_index' = coach_index + 1
    /\ raised' = "none"
    /\ UNCHANGED <<items, process_inbox, now, dedup_index, session, returned>>
    /\ UNCHANGED <<queueVars, resourceVars>>

(* coach_advance, while the cursor is within MaxSnapshot *)
CoachAdvance ==
    /\ coach_index < MaxSnapshot
    /\ coach_index' = coach_index + 1
    /\ raised' = "none"
    /\ UNCHANGED <<items, process_inbox, now, dedup_index, two_min_index, session, returned>>
    /\ UNCHANGED <<queueVars, resourceVars>>

(* a call of coach.estimate_duration_heuristic, its argument and result    *)
(* kept as the value returned                                              *)
EstimateDurationHeuristicCall(title) ==
    /\ returned' = <<[title |-> title, minutes |-> EstimateDurationHeuristic(title)]>>
    /\ raised' = "none"
    /\ UNCHANGED <<items, process_inbox, now, dedup_index, two_min_index, coach_index, session>>
    /\ UNCHANGED <<queueVars, resourceVars>>

(* utils/llm: complete(prompt) asks the configured provider.  provider is  *)
(* what get_provider() finds ("none": no key, no SDK), response is how the *)
(* provider's call ends and answer is the text of a successful call.       *)
(* Only the Gemini provider lets a client or authentication error out.     *)
ProviderTypes == {"none", "gemini", "openai", "ollama"}
Responses == {"text", "empty", "error", "client error"}

GenerateText(provider, response, answer) ==
    IF response = "text" THEN [kind |-> "text", text |-> answer]
    ELSE IF provider = "gemini" /\ response = "client error"
    THEN [kind |-> "raise", text |-> NoText]
    ELSE [kind |-> "none", text |-> NoText]

Complete(provider, response, answer) ==
    IF provider = "none" THEN [kind |-> "none", text |-> NoText]
    ELSE GenerateText(provider, response, answer)

(* an exception of the provider passes through the caller *)
AiRaises ==
    /\ raised' = "LLM client error"
    /\ UNCHANGED returned

AiReturns(value) ==
    /\ raised' = "none"
    /\ returned' = value

AiFrame ==
    /\ UNCHANGED <<items, process_inbox, now, dedup_index, two_min_index, coach_index, session>>
    /\ UNCHANGED <<queueVars, resourceVars>>

(* coach_task(task_title): None for a blank title or without an answer *)
CoachTask(task_title, provider, response, answer) ==
    /\ IF task_title = <<>> \/ Strip(task_title) = <<>>
       THEN AiReturns(<<>>)
       ELSE LET out == Complete(provider, response, answer)
            IN  IF out.kind = "raise" THEN AiRaises
                ELSE IF out.kind = "none" THEN AiReturns(<<>>)
                ELSE AiReturns(<<[suggestion |-> out.text]>>)
    /\ AiFrame

(* are_duplicate(title_a, title_b): None for a blank title or without an   *)
(* answer, else whether the answer says duplicate                          *)
AreDuplicate(title_a, title_b, provider, response, answer) ==
    /\ IF title_a = <<>> \/ Strip(title_a) = <<>> \/ title_b = <<>> \/ Strip(title_b) = <<>>
       THEN AiReturns(<<>>)
       ELSE LET out == Complete(provider, response, answer)
            IN  IF out.kind = "raise" THEN AiRaises
                ELSE IF out.kind = "none" THEN AiReturns(<<>>)
                ELSE AiReturns(<<[duplicate |-> out.text = "duplicate"]>>)
    /\ AiFrame

(* the lines "Name: i, j" of a clustering answer: the indices within the   *)
(* titles are kept, and a line is kept if it has a name and an index       *)
ParseClusters(lines, n) ==
    LET kept(line) == SelectSeq(line.parts, LAMBDA p : 0 <= p /\ p < n)
        parsed == [k \in 1..Len(lines) |-> [name |-> lines[k].name, indices |-> kept(lines[k])]]
    IN  SelectSeq(parsed, LAMBDA c : c.name # "" /\ c.indices # <<>>)

(* suggest_clusters(titles): [] without titles, without an answer or when  *)
(* the answer says none                                                    *)
SuggestClusters(titles, out) ==
    IF titles = <<>> THEN <<>>
    ELSE IF out.kind = "none" THEN <<>>
    ELSE IF out.text.none THEN <<>>
    ELSE ParseClusters(out.text.lines, Len(titles))

(* Engine.get_cluster_suggestions: the clusters with the ids of the        *)
(* working set's non-archived entries in place of the indices              *)
GetClusterSuggestions(provider, response, answer) ==
    /\ LET live == SelectSeq(process_inbox, IsNotArchived)
           titles == [k \in 1..Len(live) |-> live[k].title]
           out == Complete(provider, response, answer)
           suggestions == SuggestClusters(titles, out)
       IN  IF live = <<>> THEN AiReturns(<<[clusters |-> <<>>]>>)
           ELSE IF out.kind = "raise" THEN AiRaises
           ELSE AiReturns(<<[clusters |->
                    [k \in 1..Len(suggestions) |->
                        [name |-> suggestions[k].name,
                         ids |-> [j \in 1..Len(suggestions[k].indices) |->
                                    live[suggestions[k].indices[j] + 1].id]]]]>>)
    /\ AiFrame

(* item = get_item(item_id); if item: update_item(status=done,             *)
(* updated_at=now) -- the body of complete_item and two_min_do_now         *)
WriteDone(item_id) ==
    LET item == GetItem(items, item_id)
    IN  IF item # NoItem
        THEN EngineReturns(UpdateItem(items,
                [item EXCEPT !.status = "done", !.updated_at = now]))
        ELSE EngineReturns(items)

(* without the `if item:` guard a missing row is None.model_copy(...) *)
WriteStatus_Unguarded(item_id, status) ==
    LET item == GetItem(items, item_id)
    IN  IF item # NoItem
        THEN EngineReturns(UpdateItem(items, [item EXCEPT !.status = status]))
        ELSE raised' = "AttributeError" /\ UNCHANGED <<items, funnelVars>>

(* item = get_item(item_id); if item: update_item(status=...) -- the body  *)
(* of archive_item, resurface_item and two_min_delete                      *)
WriteStatus(item_id, status) ==
    LET item == GetItem(items, item_id)
    IN  IF item # NoItem
        THEN EngineReturns(UpdateItem(items, [item EXCEPT !.status = status]))
        ELSE EngineReturns(items)

TwoMinDoNow(item_id) ==
    /\ WriteDone(item_id)
    /\ process_inbox' = ListInbox(items')
    /\ UNCHANGED now
    /\ UNCHANGED <<queueVars, resourceVars>>

TwoMinDefer(item_id) ==
    /\ EngineReturns(items)
    /\ process_inbox' = ListInbox(items)
    /\ UNCHANGED now
    /\ UNCHANGED <<queueVars, resourceVars>>

(* ProcessService.two_min_delete *)
TwoMinDelete(item_id) ==
    /\ WriteStatus(item_id, "archived")
    /\ UNCHANGED <<process_inbox, now>>
    /\ UNCHANGED <<queueVars, resourceVars>>

(* the estimate written whether or not the item had a duration *)
CoachApplySuggestion_Overwrite(item_id, new_title, auto_estimate_duration, llm) ==
    /\ IF new_title = <<>> \/ Strip(new_title) = <<>>
       THEN EngineRaises("ValueError: title")
       ELSE LET item == GetItem(items, item_id)
                duration == IF llm # NoDuration THEN llm
                            ELSE EstimateDurationHeuristic(new_title)
                after == IF item = NoItem THEN items
                         ELSE UpdateItem(items,
                                [item EXCEPT !.title = Strip(new_title),
                                             !.estimated_duration = duration])
            IN  /\ EngineReturns(after)
                /\ process_inbox' = ListInbox(after)
    /\ UNCHANGED now
    /\ UNCHANGED <<queueVars, resourceVars>>

(* llm is the answer of coach.estimate_duration: a valid duration or None  *)
CoachApplySuggestion(item_id, new_title, auto_estimate_duration, llm) ==
    /\ IF new_title = <<>> \/ Strip(new_title) = <<>>
       THEN EngineRaises("ValueError: title")
       ELSE LET item == GetItem(items, item_id)
                duration == IF llm # NoDuration THEN llm
                            ELSE EstimateDurationHeuristic(new_title)
                retitled == [item EXCEPT !.title = Strip(new_title)]
                after == IF item = NoItem THEN items
                         ELSE IF auto_estimate_duration
                                 /\ item.estimated_duration = NoDuration
                              THEN UpdateItem(items,
                                     [retitled EXCEPT !.estimated_duration = duration])
                              ELSE UpdateItem(items, retitled)
            IN  /\ EngineReturns(after)
                /\ process_inbox' = ListInbox(after)
    /\ UNCHANGED now
    /\ UNCHANGED <<queueVars, resourceVars>>

SetItemDuration(item_id, duration_minutes) ==
    /\ LET item == GetItem(items, item_id)
       IN  IF duration_minutes \notin VALID_DURATIONS
           THEN EngineRaises("ValueError: duration")
           ELSE IF item = NoItem
           THEN EngineRaises("ValueError: item not found")
           ELSE /\ EngineReturns(UpdateItem(items,
                        [item EXCEPT !.estimated_duration = duration_minutes]))
                /\ UNCHANGED process_inbox
    /\ UNCHANGED now
    /\ UNCHANGED <<queueVars, resourceVars>>

Abs(n) == IF n < 0 THEN 0 - n ELSE n

(* the parsed number itself *)
Nearest_Raw(duration) == duration

(* min(VALID_DURATIONS, key=lambda x: abs(x - duration)): the nearest of   *)
(* the five values, the smaller one of two equally near                    *)
Nearest(duration) ==
    CHOOSE v \in VALID_DURATIONS :
        \A o \in VALID_DURATIONS :
            \/ Abs(v - duration) < Abs(o - duration)
            \/ Abs(v - duration) = Abs(o - duration) /\ v <= o

(* what complete() gave estimate_duration: nothing, a text int() parses,   *)
(* or another text with the numbers re.findall(r"\d+") finds in it         *)
NoAnswer == [kind |-> "none", value |-> 0, numbers |-> <<>>]
IntAnswer(n) == [kind |-> "int", value |-> n, numbers |-> <<>>]
TextAnswer(numbers) == [kind |-> "text", value |-> 0, numbers |-> numbers]

(* estimate_duration(task_title): None for a blank title, for no answer    *)
(* and for a text without a number                                         *)
EstimateDuration(task_title, out) ==
    IF task_title = <<>> \/ Strip(task_title) = <<>> THEN NoDuration
    ELSE IF out.kind = "none" THEN NoDuration
    ELSE IF out.kind = "int" THEN Nearest(out.value)
    ELSE IF out.numbers # <<>> THEN Nearest(out.numbers[1])
    ELSE NoDuration

(* estimate_item_duration(item_id, use_llm): None for an unknown id; the   *)
(* heuristic when the LLM is not used or gives no estimate                 *)
EstimateItemDuration(item_id, use_llm, out) ==
    /\ LET item == GetItem(items, item_id)
           llm == IF use_llm THEN EstimateDuration(item.title, out) ELSE NoDuration
           duration == IF llm # NoDuration THEN llm
                       ELSE EstimateDurationHeuristic(item.title)
       IN  IF item = NoItem
           THEN /\ items' = items
                /\ returned' = <<>>
           ELSE /\ items' = UpdateItem(items, [item EXCEPT !.estimated_duration = duration])
                /\ returned' = <<[title |-> item.title, minutes |-> duration]>>
    /\ raised' = "none"
    /\ UNCHANGED <<process_inbox, now, dedup_index, two_min_index, coach_index, session>>
    /\ UNCHANGED <<queueVars, resourceVars>>

ArchiveItem(item_id) ==
    /\ WriteStatus(item_id, "archived")
    /\ UNCHANGED <<process_inbox, now>>
    /\ UNCHANGED <<queueVars, resourceVars>>

ResurfaceItem(item_id) ==
    /\ WriteStatus(item_id, "active")
    /\ UNCHANGED <<process_inbox, now>>
    /\ UNCHANGED <<queueVars, resourceVars>>

CompleteItem(item_id) ==
    /\ WriteDone(item_id)
    /\ UNCHANGED <<process_inbox, now>>
    /\ UNCHANGED <<queueVars, resourceVars>>

(* Engine.defer_item, from the specification: waiting and someday set the  *)
(* status directly; until stores defer_until and leaves the status alone.  *)
Deferred(its, item_id, mode, until) ==
    LET item == GetItem(its, item_id)
    IN  IF item = NoItem THEN its
        ELSE IF mode = "until"
        THEN UpdateItem(its, [item EXCEPT !.defer_until = until])
        ELSE UpdateItem(its, [item EXCEPT !.status = mode])

DeferItem(item_id, mode, until) ==
    /\ EngineReturns(Deferred(items, item_id, mode, until))
    /\ UNCHANGED <<process_inbox, now>>
    /\ UNCHANGED <<queueVars, resourceVars>>

(* Engine.assign_item_to_project, from the specification *)
AssignItemToProject(item_id, project_id) ==
    /\ LET project == GetItem(items, project_id)
           item == GetItem(items, item_id)
       IN  IF project = NoItem \/ project.type # "project"
           THEN EngineRaises("ValueError: not a project")
           ELSE /\ EngineReturns(
                     IF item = NoItem THEN items
                     ELSE UpdateItem(items,
                            [item EXCEPT !.parent_id = project_id, !.type = "action"]))
                /\ UNCHANGED process_inbox
    /\ UNCHANGED now
    /\ UNCHANGED <<queueVars, resourceVars>>

(* time passes *)
Tick ==
    /\ now < MaxTime
    /\ now' = now + 1
    /\ UNCHANGED <<items, process_inbox, raised, funnelVars>>
    /\ UNCHANGED <<queueVars, resourceVars>>


-----------------------------------------------------------------------------
(* The index queue.  A job row is [id, resource_id, text, status, error,   *)
(* created_at]; `text` stands for the job's title, summary and source, the *)
(* fields _build_index_text joins when the resource row is gone.  The      *)
(* updated_at column of index_jobs is written and never read; it is left   *)
(* out.                                                                    *)

Workers == 1..MaxWorkers
Procs == 1..MaxWorkers
ResourceIds == 1..MaxResources
Texts == {"v1", "v2"}
Limits == 0..MaxJobs
JobStatuses == {"pending", "processing", "done", "error"}

(* INSERT INTO index_jobs ... 'pending', NULL, now, now *)
EnqueueIndexJob(js, resource_id, text, t) ==
    Append(js, [id |-> Len(js) + 1, resource_id |-> resource_id, text |-> text,
                status |-> "pending", error |-> NoError, created_at |-> t])

(* ORDER BY created_at DESC *)
Earlier_Descending(a, b) ==
    a.created_at > b.created_at \/ (a.created_at = b.created_at /\ a.id > b.id)

(* ORDER BY created_at ASC over the rows of one status: the scan runs      *)
(* along idx_index_jobs_status_created, whose entries are (status,         *)
(* created_at, rowid), so rows of equal created_at come in row order       *)
Earlier(a, b) ==
    a.created_at < b.created_at \/ (a.created_at = b.created_at /\ a.id < b.id)

RECURSIVE OrderByCreatedAt(_)
OrderByCreatedAt(rows) ==
    IF rows = {} THEN <<>>
    ELSE LET first == CHOOSE r \in rows : \A o \in rows \ {r} : Earlier(r, o)
         IN  <<first>> \o OrderByCreatedAt(rows \ {first})

(* LIMIT n: a negative n is no limit in SQLite *)
Take(seq, n) ==
    IF n < 0 \/ n >= Len(seq) THEN seq ELSE SubSeq(seq, 1, n)

ListIndexJobs(js, status, n) ==
    Take(OrderByCreatedAt({js[i] : i \in {k \in 1..Len(js) : js[k].status = status}}), n)

(* UPDATE index_jobs SET status = ?, error = ? WHERE id = ? *)
UpdateIndexJobStatus(js, job_id, status, error) ==
    IF job_id \in 1..Len(js)
    THEN [js EXCEPT ![job_id].status = status, ![job_id].error = error]
    ELSE js

(* ResourceDB.get_resource *)
GetResource(resource_id) ==
    IF resource_id \in ResourceIds THEN resources[resource_id] ELSE NoText

(* the text process_pending_jobs hands to the store: built from the        *)
(* resource row when it exists, from the job's own fields otherwise        *)
IndexText(job) ==
    IF GetResource(job.resource_id) # NoText THEN GetResource(job.resource_id)
    ELSE job.text

(* collection.add(ids=[resource_id], ...) without replacing *)
UpsertResource_Add(coll, resource_id, text) ==
    coll \cup {[id |-> resource_id, document |-> text]}

(* collection.upsert(ids=[resource_id], ...) *)
UpsertResource(coll, resource_id, text) ==
    {e \in coll : e.id # resource_id} \cup {[id |-> resource_id, document |-> text]}

(* ResourceDB.insert_resource / update_resource, as cli.save calls them *)
PutResource(resource_id, text) ==
    /\ resources' = [resources EXCEPT ![resource_id] = text]
    /\ UNCHANGED <<jobs, collection, proc, lock, pc, batch, idx, limit, processed>>
    /\ UNCHANGED <<engineVars, resourceVars>>

EnqueueResourceIndex(resource_id, text) ==
    /\ Len(jobs) < MaxJobs
    /\ jobs' = EnqueueIndexJob(jobs, resource_id, text, now)
    /\ UNCHANGED <<resources, collection, proc, lock, pc, batch, idx, limit, processed>>
    /\ UNCHANGED <<engineVars, resourceVars>>

(* a worker (a thread of the TUI process, or the process cli.save spawns)  *)
(* calls process_pending_jobs_once(n) and enters `with _worker_lock`: the  *)
(* lock is a module global, so there is one per OS process, and the call   *)
(* blocks while another thread of the same process holds it                *)
Acquire(w, n) ==
    /\ pc[w] = "idle"
    /\ lock[proc[w]] = NoWorker
    /\ lock' = [lock EXCEPT ![proc[w]] = w]
    /\ pc' = [pc EXCEPT ![w] = "list"]
    /\ limit' = [limit EXCEPT ![w] = n]
    /\ UNCHANGED <<jobs, resources, collection, proc, batch, idx, processed>>
    /\ UNCHANGED <<engineVars, resourceVars>>

(* store = self._ensure_store(); if not store or not store.available:      *)
(* return 0 -- the backend of this worker failed to initialise             *)
StoreUnavailable(w) ==
    /\ pc[w] = "list"
    /\ pc' = [pc EXCEPT ![w] = "release"]
    /\ UNCHANGED <<jobs, resources, collection, proc, lock, batch, idx, limit, processed>>
    /\ UNCHANGED <<engineVars, resourceVars>>

AfterJob(w) ==
    IF idx[w] + 1 < Len(batch[w]) THEN "mark_processing" ELSE "release"

(* processed = 0; jobs = list_index_jobs("pending", limit) *)
ListPending(w) ==
    /\ pc[w] = "list"
    /\ LET fetched == ListIndexJobs(jobs, "pending", limit[w])
       IN  /\ batch' = [batch EXCEPT ![w] = [k \in 1..Len(fetched) |-> fetched[k]]]
           /\ pc' = [pc EXCEPT ![w] = IF fetched = <<>> THEN "release"
                                      ELSE "mark_processing"]
    /\ idx' = [idx EXCEPT ![w] = 0]
    /\ processed' = [processed EXCEPT ![w] = 0]
    /\ UNCHANGED <<jobs, resources, collection, proc, lock, limit>>
    /\ UNCHANGED <<engineVars, resourceVars>>

(* the job of the current loop iteration, as fetched *)
Current(w) == batch[w][idx[w] + 1]

MarkProcessing(w) ==
    /\ pc[w] = "mark_processing"
    /\ jobs' = UpdateIndexJobStatus(jobs, Current(w).id, "processing", NoError)
    /\ pc' = [pc EXCEPT ![w] = "upsert"]
    /\ UNCHANGED <<resources, collection, proc, lock, batch, idx, limit, processed>>
    /\ UNCHANGED <<engineVars, resourceVars>>

(* get_resource, _build_index_text and store.upsert_resource succeed *)
UpsertOk(w) ==
    /\ pc[w] = "upsert"
    /\ collection' = UpsertResource(collection, Current(w).resource_id,
                                    IndexText(Current(w)))
    /\ pc' = [pc EXCEPT ![w] = "mark_done"]
    /\ UNCHANGED <<jobs, resources, proc, lock, batch, idx, limit, processed>>
    /\ UNCHANGED <<engineVars, resourceVars>>

(* the exception leaves the loop and the call *)
OnUpsertError_Abort(w) ==
    /\ pc' = [pc EXCEPT ![w] = "release"]
    /\ UNCHANGED <<batch, idx, lock, processed>>

(* the embedding or the store raises: control goes to `except Exception`   *)
OnUpsertError(w) ==
    /\ pc' = [pc EXCEPT ![w] = "mark_error"]
    /\ UNCHANGED <<batch, idx, lock, processed>>

UpsertFails(w) ==
    /\ pc[w] = "upsert"
    /\ OnUpsertError(w)
    /\ UNCHANGED <<jobs, resources, collection, proc, limit>>
    /\ UNCHANGED <<engineVars, resourceVars>>

MarkDone(w) ==
    /\ pc[w] = "mark_done"
    /\ jobs' = UpdateIndexJobStatus(jobs, Current(w).id, "done", NoError)
    /\ processed' = [processed EXCEPT ![w] = @ + 1]
    /\ pc' = [pc EXCEPT ![w] = AfterJob(w)]
    /\ idx' = [idx EXCEPT ![w] = @ + 1]
    /\ UNCHANGED <<resources, collection, proc, lock, batch, limit>>
    /\ UNCHANGED <<engineVars, resourceVars>>

MarkError(w) ==
    /\ pc[w] = "mark_error"
    /\ jobs' = UpdateIndexJobStatus(jobs, Current(w).id, "error", "upsert failed")
    /\ pc' = [pc EXCEPT ![w] = AfterJob(w)]
    /\ idx' = [idx EXCEPT ![w] = @ + 1]
    /\ UNCHANGED <<resources, collection, proc, lock, batch, limit, processed>>
    /\ UNCHANGED <<engineVars, resourceVars>>

(* return processed, leaving `with _worker_lock`; the locals go away *)
Release(w) ==
    /\ pc[w] = "release"
    /\ lock' = [lock EXCEPT ![proc[w]] = NoWorker]
    /\ pc' = [pc EXCEPT ![w] = "idle"]
    /\ batch' = [batch EXCEPT ![w] = <<>>]
    /\ idx' = [idx EXCEPT ![w] = 0]
    /\ processed' = [processed EXCEPT ![w] = 0]
    /\ limit' = [limit EXCEPT ![w] = 0]
    /\ UNCHANGED <<jobs, resources, collection, proc>>
    /\ UNCHANGED <<engineVars, resourceVars>>

(* the worker is stopped part-way through a batch: the TUI's worker is a   *)
(* daemon thread and ends with the TUI, a worker process can be killed.    *)
(* Its lock and its locals go with it; the rows it wrote stay as they are  *)
Stop(w) ==
    /\ pc[w] \in {"upsert", "mark_done", "mark_error"}
          \/ (pc[w] = "mark_processing" /\ idx[w] > 0)
    /\ lock' = [lock EXCEPT ![proc[w]] = NoWorker]
    /\ pc' = [pc EXCEPT ![w] = "idle"]
    /\ batch' = [batch EXCEPT ![w] = <<>>]
    /\ idx' = [idx EXCEPT ![w] = 0]
    /\ processed' = [processed EXCEPT ![w] = 0]
    /\ limit' = [limit EXCEPT ![w] = 0]
    /\ UNCHANGED <<jobs, resources, collection, proc>>
    /\ UNCHANGED <<engineVars, resourceVars>>

-----------------------------------------------------------------------------
(* ResourceDB: the resources and tags tables (flow/database/resources.py). *)
(* A resource's tags are the JSON list stored in its row, so a name can    *)
(* occur in it more than once.                                             *)

TagNames == {"api", "docs"}

(* a call of a ResourceDB method and the value it returned, <<>> for None *)
Call(name, args, value) == [call |-> name, args |-> args, value |-> value]

Range(seq) == {seq[k] : k \in 1..Len(seq)}

(* INSERT INTO resources *)
InsertResource(tags) ==
    /\ res_rows' = Append(res_rows, [id |-> Len(res_rows) + 1, tags |-> tags])
    /\ db_result' = Call("insert_resource", <<tags>>, <<>>)
    /\ UNCHANGED tag_rows
    /\ UNCHANGED <<engineVars, queueVars, tagging>>

(* SELECT COUNT FROM json_each(r.tags) WHERE json_each.value IN (...):     *)
(* the entries of the row's list that are in the query                     *)
MatchCount(row, tags) == Cardinality({k \in 1..Len(row.tags) : row.tags[k] \in Range(tags)})

RECURSIVE SubsetsOfSize(_, _)
SubsetsOfSize(S, n) ==
    IF n = 0 THEN {{}}
    ELSE UNION {{T \cup {x} : T \in SubsetsOfSize(S \ {x}, n - 1)} : x \in S}

(* ORDER BY match count DESC: SQL leaves the order of rows with the same   *)
(* count open, so the ranking is the sequence of the groups of ids with    *)
(* the same count, highest count first                                     *)
RECURSIVE Ranking(_, _)
Ranking(rows, tags) ==
    IF rows = {} THEN <<>>
    ELSE LET top == CHOOSE c \in {MatchCount(r, tags) : r \in rows} :
                        \A r \in rows : MatchCount(r, tags) <= c
             first == {r \in rows : MatchCount(r, tags) = top}
         IN  <<{r.id : r \in first}>> \o Ranking(rows \ first, tags)

RECURSIVE Size(_)
Size(ranking) == IF ranking = <<>> THEN 0 ELSE Cardinality(Head(ranking)) + Size(Tail(ranking))

(* LIMIT n: the groups that fit, then any n' ids of the group that does    *)
(* not, for the n' places left                                             *)
RECURSIVE Limited(_, _)
Limited(ranking, n) ==
    IF ranking = <<>> \/ n = 0 THEN {<<>>}
    ELSE IF Cardinality(Head(ranking)) <= n
    THEN {<<Head(ranking)>> \o rest : rest \in Limited(Tail(ranking), n - Cardinality(Head(ranking)))}
    ELSE {<<Head(ranking) \ dropped>> :
            dropped \in SubsetsOfSize(Head(ranking), Cardinality(Head(ranking)) - n)}

FIND_LIMIT == 100

FindResourcesByTags_AllWhenEmpty(tags, lim) ==
    /\ \E found \in Limited(Ranking({r \in Range(res_rows) :
                                        tags = <<>> \/ MatchCount(r, tags) > 0}, tags), lim) :
            db_result' = Call("find_resources_by_tags", <<tags, lim>>, found)
    /\ UNCHANGED <<res_rows, tag_rows>>
    /\ UNCHANGED <<engineVars, queueVars, tagging>>

(* find_resources_by_tags(tags, limit) *)
FindResourcesByTags(tags, lim) ==
    /\ \E found \in IF tags = <<>> THEN {<<>>}
                      ELSE Limited(Ranking({r \in Range(res_rows) : MatchCount(r, tags) > 0},
                                           tags), lim) :
            db_result' = Call("find_resources_by_tags", <<tags, lim>>, found)
    /\ UNCHANGED <<res_rows, tag_rows>>
    /\ UNCHANGED <<engineVars, queueVars, tagging>>

TagRowNames(rows) == {t.name : t \in rows}

(* SELECT usage_count FROM tags WHERE name = ? *)
UsageCount(rows, name) == (CHOOSE t \in rows : t.name = name).usage_count

(* the usage count of a name, 0 for a name that is not in the vocabulary *)
Usage(rows, name) == IF name \in TagRowNames(rows) THEN UsageCount(rows, name) ELSE 0

(* how often the list holds the name *)
Count(tags, name) == Cardinality({k \in 1..Len(tags) : tags[k] = name})

(* UPDATE tags SET usage_count = usage_count + 1, or INSERT with count 1   *)
(* when no row was updated                                                 *)
Incremented(rows, name) ==
    IF name \in TagRowNames(rows)
    THEN {IF t.name = name THEN [t EXCEPT !.usage_count = @ + 1] ELSE t : t \in rows}
    ELSE rows \cup {[name |-> name, usage_count |-> 1]}

IncrementTagUsage(name) ==
    /\ tag_rows' = Incremented(tag_rows, name)
    /\ db_result' = Call("increment_tag_usage", <<name>>, <<>>)
    /\ UNCHANGED res_rows
    /\ UNCHANGED <<engineVars, queueVars, tagging>>

DecrementTagUsage_NoFloor(name) ==
    /\ tag_rows' = {IF t.name = name THEN [t EXCEPT !.usage_count = @ - 1] ELSE t :
                        t \in tag_rows}
    /\ db_result' = Call("decrement_tag_usage", <<name>>, <<>>)
    /\ UNCHANGED res_rows
    /\ UNCHANGED <<engineVars, queueVars, tagging>>

(* UPDATE tags SET usage_count = MAX(0, usage_count - 1) WHERE name = ? *)
DecrementTagUsage(name) ==
    /\ tag_rows' = {IF t.name = name
                    THEN [t EXCEPT !.usage_count = IF @ - 1 > 0 THEN @ - 1 ELSE 0]
                    ELSE t : t \in tag_rows}
    /\ db_result' = Call("decrement_tag_usage", <<name>>, <<>>)
    /\ UNCHANGED res_rows
    /\ UNCHANGED <<engineVars, queueVars, tagging>>

(* list.remove(x): the first occurrence *)
RECURSIVE Remove(_, _)
Remove(seq, x) ==
    IF seq = <<>> THEN <<>>
    ELSE IF Head(seq) = x THEN Tail(seq)
    ELSE <<Head(seq)>> \o Remove(Tail(seq), x)

(* the re-tagging loop of merge_tags on one row's list *)
Retagged(tags, old_name, new_name) ==
    IF old_name \in Range(tags)
    THEN LET removed == Remove(tags, old_name)
         IN  IF new_name \notin Range(removed) THEN Append(removed, new_name) ELSE removed
    ELSE tags

(* the usage counts of merge_tags: when old has a row its count is added   *)
(* to the row of new, if there is one, and the row of old is deleted       *)
MergedUsage(rows, old_name, new_name) ==
    IF old_name \in TagRowNames(rows)
    THEN LET old_count == UsageCount(rows, old_name)
             added == {IF t.name = new_name
                       THEN [t EXCEPT !.usage_count = @ + old_count]
                       ELSE t : t \in rows}
         IN  {t \in added : t.name # old_name}
    ELSE rows

(* merge_tags(old_name, new_name): returns the number of rows re-tagged *)
MergeTags(old_name, new_name) ==
    /\ res_rows' = IF res_rows = <<>> THEN <<>>
                   ELSE [k \in 1..Len(res_rows) |->
                            [res_rows[k] EXCEPT !.tags = Retagged(@, old_name, new_name)]]
    /\ tag_rows' = MergedUsage(tag_rows, old_name, new_name)
    /\ db_result' = Call("merge_tags", <<old_name, new_name>>,
                         <<Cardinality({k \in 1..Len(res_rows) :
                                            old_name \in Range(res_rows[k].tags)})>>)
    /\ UNCHANGED <<engineVars, queueVars, tagging>>

-----------------------------------------------------------------------------
(* Engine.capture with tags, and the auto-tagging thread it starts *)

(* list(dict.fromkeys(tags)): the first occurrence of every name, in order *)
RECURSIVE FromKeys(_)
FromKeys(tags) ==
    IF tags = <<>> THEN <<>>
    ELSE LET front == FromKeys(SubSeq(tags, 1, Len(tags) - 1))
             last == tags[Len(tags)]
         IN  IF last \in Range(front) THEN front ELSE Append(front, last)

(* for tag in tags: increment_tag_usage(tag) *)
RECURSIVE IncrementedAll(_, _)
IncrementedAll(rows, tags) ==
    IF tags = <<>> THEN rows
    ELSE IncrementedAll(Incremented(rows, Head(tags)), Tail(tags))

CaptureTagged_AlwaysSchedules(text, tags, skip_auto_tag) ==
    LET item == [Item(Len(items) + 1, "inbox", Strip(text), NoTime)
                    EXCEPT !.context_tags = tags]
    IN  /\ items' = InsertInbox(items, item)
        /\ tagging' = tagging \cup {[item_id |-> item.id, pc |-> "start",
                                     tags |-> <<>>, item |-> NoItem]}
        /\ returned' = <<item>>
        /\ raised' = "none"
        /\ UNCHANGED <<process_inbox, now, dedup_index, two_min_index, coach_index, session>>
        /\ UNCHANGED <<queueVars, res_rows, tag_rows, db_result>>

(* Engine.capture(text, tags=tags, skip_auto_tag=skip_auto_tag): the item  *)
(* is stored with the tags given, the thread is started when no tags are   *)
(* given and auto-tagging is not skipped, the item built is returned       *)
CaptureTagged(text, tags, skip_auto_tag) ==
    LET item == [Item(Len(items) + 1, "inbox", Strip(text), NoTime)
                    EXCEPT !.context_tags = tags]
    IN  /\ items' = InsertInbox(items, item)
        /\ tagging' = IF tags = <<>> /\ ~skip_auto_tag
                      THEN tagging \cup {[item_id |-> item.id, pc |-> "start",
                                          tags |-> <<>>, item |-> NoItem]}
                      ELSE tagging
        /\ returned' = <<item>>
        /\ raised' = "none"
        /\ UNCHANGED <<process_inbox, now, dedup_index, two_min_index, coach_index, session>>
        /\ UNCHANGED <<queueVars, res_rows, tag_rows, db_result>>

TaggingRead_WritesAnyway(thread, extracted) ==
    /\ thread \in tagging
    /\ thread.pc = "start"
    /\ LET item == GetItem(items, thread.item_id)
       IN  tagging' = IF item = NoItem
                      THEN tagging \ {thread}
                      ELSE (tagging \ {thread}) \cup
                           {[thread EXCEPT !.pc = "write", !.tags = extracted, !.item = item]}
    /\ UNCHANGED <<engineVars, queueVars, res_rows, tag_rows, db_result>>

(* _run_tagging up to get_item: extract_tags gives the tags the LLM        *)
(* answered, [] when it is unavailable; with no tags or no item the thread *)
(* ends, otherwise it holds the item it read                               *)
TaggingRead(thread, extracted) ==
    /\ thread \in tagging
    /\ thread.pc = "start"
    /\ LET item == GetItem(items, thread.item_id)
       IN  tagging' = IF extracted = <<>> \/ item = NoItem
                      THEN tagging \ {thread}
                      ELSE (tagging \ {thread}) \cup
                           {[thread EXCEPT !.pc = "write", !.tags = extracted, !.item = item]}
    /\ UNCHANGED <<engineVars, queueVars, res_rows, tag_rows, db_result>>

(* _run_tagging from update_item on: the copy read, with the tags merged,  *)
(* is written back and every extracted tag is counted                      *)
TaggingWrite(thread) ==
    /\ thread \in tagging
    /\ thread.pc = "write"
    /\ LET merged == FromKeys(thread.item.context_tags \o thread.tags)
       IN  items' = UpdateItem(items, [thread.item EXCEPT !.context_tags = merged])
    /\ tag_rows' = IncrementedAll(tag_rows, thread.tags)
    /\ tagging' = tagging \ {thread}
    /\ UNCHANGED <<process_inbox, now, raised, funnelVars>>
    /\ UNCHANGED <<queueVars, res_rows, db_result>>

-----------------------------------------------------------------------------
(* The process screen's quick-win handlers (flow/tui/screens/process).     *)
(* Each takes item = get_2min_current() and does nothing when it is None.  *)

(* the handler's frame: the item shown, two_min_advance() *)
QuickWinHandled(item) ==
    /\ two_min_index' = two_min_index + 1
    /\ session' = [session EXCEPT !.shown = Append(@, item.id)]
    /\ returned' = <<item>>
    /\ raised' = "none"
    /\ UNCHANGED <<now, dedup_index, coach_index>>
    /\ UNCHANGED <<queueVars, resourceVars>>

(* _do_now_async: two_min_do_now(item.id), two_min_advance() *)
DoNowAsync ==
    /\ two_min_index < Len(Get2MinItems)
    /\ LET item == Get2MinItems[two_min_index + 1]
           stored == GetItem(items, item.id)
       IN  /\ items' = IF stored # NoItem
                       THEN UpdateItem(items,
                                [stored EXCEPT !.status = "done", !.updated_at = now])
                       ELSE items
           /\ process_inbox' = ListInbox(items')
           /\ QuickWinHandled(item)

(* _delete_async: two_min_delete(item.id), two_min_advance() *)
DeleteAsync ==
    /\ two_min_index < Len(Get2MinItems)
    /\ LET item == Get2MinItems[two_min_index + 1]
           stored == GetItem(items, item.id)
       IN  /\ items' = IF stored # NoItem
                       THEN UpdateItem(items, [stored EXCEPT !.status = "archived"])
                       ELSE items
           /\ UNCHANGED process_inbox
           /\ QuickWinHandled(item)

(* _open_stage3_defer_async and _apply_stage3_defer_result_async with the  *)
(* dialog's answer: get_item(item.id), defer_item(item.id, mode, until),   *)
(* two_min_advance()                                                       *)
DeferAsync(mode, until) ==
    /\ two_min_index < Len(Get2MinItems)
    /\ LET item == Get2MinItems[two_min_index + 1]
       IN  /\ GetItem(items, item.id) # NoItem
           /\ items' = Deferred(items, item.id, mode, until)
           /\ UNCHANGED process_inbox
           /\ QuickWinHandled(item)

-----------------------------------------------------------------------------
(* flow save (flow/cli.py) *)

(* SELECT * FROM resources WHERE source = ?, fetchone: the first such row, *)
(* NoItem for None                                                         *)
GetResourceBySource(rows, source) ==
    LET found == {k \in 1..Len(rows) : rows[k].source = source}
    IN  IF found = {} THEN NoItem
        ELSE rows[CHOOSE k \in found : \A other \in found : k <= other]

(* UPDATE resources SET ... WHERE id = ? *)
UpdateResource(rows, resource) ==
    [k \in 1..Len(rows) |-> IF rows[k].id = resource.id THEN resource ELSE rows[k]]

(* how the enqueue and the start of the worker process end *)
Outcomes == {"started", "enqueue fails", "start fails"}

Saved_Appends(rows, source, final_tags) ==
    LET existing == GetResourceBySource(rows, source)
    IN  IF existing # NoItem
        THEN [existing EXCEPT !.tags = existing.tags \o final_tags]
        ELSE [id |-> Len(rows) + 1, tags |-> final_tags, source |-> source]

(* the resource save stores: the existing one with the tags merged, or a   *)
(* new one with the tags given                                             *)
Saved(rows, source, final_tags) ==
    LET existing == GetResourceBySource(rows, source)
    IN  IF existing # NoItem
        THEN [existing EXCEPT !.tags = FromKeys(existing.tags \o final_tags)]
        ELSE [id |-> Len(rows) + 1, tags |-> final_tags, source |-> source]

Save_Propagates(source, final_tags, outcome) ==
    LET resource == Saved(res_rows, source, final_tags)
    IN  /\ res_rows' = IF GetResourceBySource(res_rows, source) # NoItem
                       THEN UpdateResource(res_rows, resource)
                       ELSE Append(res_rows, resource)
        /\ tag_rows' = IncrementedAll(tag_rows, final_tags)
        /\ resources' = IF resource.id \in ResourceIds
                        THEN [resources EXCEPT ![resource.id] = source]
                        ELSE resources
        /\ jobs' = IF outcome = "enqueue fails" THEN jobs
                   ELSE EnqueueIndexJob(jobs, resource.id, source, now)
        /\ db_result' = Call("save", <<source, final_tags, outcome>>, <<resource.id>>)
        /\ raised' = IF outcome = "started" THEN "none" ELSE "worker error"
        /\ UNCHANGED <<items, process_inbox, now, funnelVars, tagging>>
        /\ UNCHANGED <<collection, proc, lock, pc, batch, idx, limit, processed>>

(* flow save <source> with the tags chosen (given, selected or extracted): *)
(* the resource is inserted or updated, the tags are counted, then the     *)
(* index job is enqueued and the worker process started inside             *)
(* try / except Exception: pass                                            *)
Save(source, final_tags, outcome) ==
    LET resource == Saved(res_rows, source, final_tags)
    IN  /\ res_rows' = IF GetResourceBySource(res_rows, source) # NoItem
                       THEN UpdateResource(res_rows, resource)
                       ELSE Append(res_rows, resource)
        /\ tag_rows' = IncrementedAll(tag_rows, final_tags)
        /\ resources' = IF resource.id \in ResourceIds
                        THEN [resources EXCEPT ![resource.id] = source]
                        ELSE resources
        /\ jobs' = IF outcome = "enqueue fails" THEN jobs
                   ELSE EnqueueIndexJob(jobs, resource.id, source, now)
        /\ db_result' = Call("save", <<source, final_tags, outcome>>, <<resource.id>>)
        /\ raised' = "none"
        /\ UNCHANGED <<items, process_inbox, now, funnelVars, tagging>>
        /\ UNCHANGED <<collection, proc, lock, pc, batch, idx, limit, processed>>

-----------------------------------------------------------------------------
(* Specifications *)

EngineInit ==
    /\ items = <<>>
    /\ process_inbox = <<>>
    /\ now = 0
    /\ raised = "none"
    /\ dedup_index = 0
    /\ two_min_index = 0
    /\ coach_index = 0
    /\ session = [started |-> FALSE, loaded |-> <<>>, dedup_done |-> FALSE, shown |-> <<>>]
    /\ returned = <<>>

(* init_db: both tables empty *)
ResourceInit ==
    /\ res_rows = <<>>
    /\ tag_rows = {}
    /\ db_result = Call("none", <<>>, <<>>)
    /\ tagging = {}

QueueInit ==
    /\ jobs = <<>>
    /\ resources = [r \in ResourceIds |-> NoText]
    /\ collection = {}
    /\ lock = [p \in Procs |-> NoWorker]
    /\ pc = [w \in Workers |-> "idle"]
    /\ batch = [w \in Workers |-> <<>>]
    /\ idx = [w \in Workers |-> 0]
    /\ limit = [w \in Workers |-> 0]
    /\ processed = [w \in Workers |-> 0]

(* every worker is a thread of one process *)
OneProcess == [w \in Workers |-> 1]

(* worker w is a thread of process 1 or runs in a process of its own *)
Topologies == {f \in [Workers -> Procs] : \A w \in Workers : f[w] \in {1, w}}

(* a new database, the queue idle, the workers in some topology *)
Init == EngineInit /\ QueueInit /\ ResourceInit /\ proc \in Topologies

(* the same with every worker a thread of one process *)
OneProcessInit == EngineInit /\ QueueInit /\ ResourceInit /\ proc = OneProcess

CaptureTexts == {<<" ", "task">>}
ProjectNames == {<<"task">>}
CoachTitles == {<<>>, <<" ">>, <<" ", "Reply">>}
LlmAnswers == {NoDuration, 15}
DurationInputs == {5, 7}
ItemIdInputs == 1..(MaxItems + 1)
DeferModes == {"waiting", "someday", "until"}

(* ids that match no stored item *)
StaleIds == ItemIdInputs \ (1..Len(items))

(* the lifecycle operations: capture, projects, deferral, status writes *)
LifecycleNext ==
    \/ \E text \in CaptureTexts, d \in {NoTime, MaxTime} : Capture(text, d)
    \/ \E k \in ItemIdInputs, r \in ItemIdInputs : DedupMerge(k, r)
    \/ \E name \in ProjectNames, ids \in SUBSET ItemIdInputs : CreateProject(name, ids)
    \/ \E ids \in SUBSET ItemIdInputs : UngroupItems(ids)
    \/ \E i \in ItemIdInputs : ArchiveItem(i)
    \/ \E i \in ItemIdInputs : ResurfaceItem(i)
    \/ \E i \in ItemIdInputs : CompleteItem(i)
    \/ \E i \in ItemIdInputs, m \in DeferModes : DeferItem(i, m, MaxTime)
    \/ \E i \in ItemIdInputs, p \in ItemIdInputs : AssignItemToProject(i, p)
    \/ Tick

(* project assignment over a store of tasks and projects *)
AssignNext ==
    \/ \E text \in CaptureTexts : Capture(text, NoTime)
    \/ \E name \in ProjectNames, ids \in SUBSET ItemIdInputs : CreateProject(name, ids)
    \/ \E i \in ItemIdInputs : ArchiveItem(i)
    \/ \E i \in ItemIdInputs, p \in ItemIdInputs : AssignItemToProject(i, p)

(* every mutation that takes an item id, called with an id that matches no *)
(* stored item, over a store that capture and the status writes fill       *)
StaleIdNext ==
    \/ \E text \in CaptureTexts : Capture(text, NoTime)
    \/ \E i \in ItemIdInputs : ArchiveItem(i)
    \/ \E i \in ItemIdInputs : CompleteItem(i)
    \/ \E i \in StaleIds : ResurfaceItem(i)
    \/ \E i \in StaleIds, m \in DeferModes : DeferItem(i, m, MaxTime)
    \/ \E k \in ItemIdInputs, r \in ItemIdInputs :
            (k \in StaleIds \/ r \in StaleIds) /\ DedupMerge(k, r)
    \/ \E i \in StaleIds : TwoMinDoNow(i)
    \/ \E i \in StaleIds : TwoMinDelete(i)
    \/ \E i \in StaleIds, t \in CoachTitles, a \in BOOLEAN, llm \in LlmAnswers :
            CoachApplySuggestion(i, t, a, llm)
    \/ \E i \in StaleIds, d \in DurationInputs : SetItemDuration(i, d)
    \/ Tick

QueueNext ==
    \/ \E r \in ResourceIds, t \in Texts : PutResource(r, t)
    \/ \E r \in ResourceIds, t \in Texts : EnqueueResourceIndex(r, t)
    \/ \E w \in Workers, n \in Limits : Acquire(w, n)
    \/ \E w \in Workers : StoreUnavailable(w)
    \/ \E w \in Workers : ListPending(w)
    \/ \E w \in Workers : MarkProcessing(w)
    \/ \E w \in Workers : UpsertOk(w)
    \/ \E w \in Workers : UpsertFails(w)
    \/ \E w \in Workers : MarkDone(w)
    \/ \E w \in Workers : MarkError(w)
    \/ \E w \in Workers : Release(w)
    \/ Tick

(* the engine over an empty database; the index queue idle *)
LifecycleSpec ==
    /\ OneProcessInit
    /\ [][LifecycleNext]_vars

(* grouping and status writes, the operations of engine.py alone *)
GroupingNext ==
    \/ \E text \in CaptureTexts : Capture(text, NoTime)
    \/ \E k \in ItemIdInputs, r \in ItemIdInputs : DedupMerge(k, r)
    \/ \E name \in ProjectNames, ids \in SUBSET ItemIdInputs : CreateProject(name, ids)
    \/ \E ids \in SUBSET ItemIdInputs : UngroupItems(ids)
    \/ \E i \in ItemIdInputs : ArchiveItem(i)
    \/ \E i \in ItemIdInputs : ResurfaceItem(i)
    \/ \E i \in ItemIdInputs : CompleteItem(i)

GroupingSpec ==
    /\ OneProcessInit
    /\ [][GroupingNext]_vars

(* the writes that archive, merge and group, with the status writes *)
StoreNext ==
    \/ \E text \in CaptureTexts : Capture(text, NoTime)
    \/ \E k \in ItemIdInputs, r \in ItemIdInputs : DedupMerge(k, r)
    \/ DedupKeepBoth
    \/ \E name \in ProjectNames, ids \in SUBSET ItemIdInputs : CreateProject(name, ids)
    \/ \E i \in ItemIdInputs : ArchiveItem(i)
    \/ \E i \in ItemIdInputs : TwoMinDelete(i)
    \/ \E i \in ItemIdInputs : CompleteItem(i)

StoreSpec ==
    /\ OneProcessInit
    /\ [][StoreNext]_vars

(* deferral over tasks that are completed and resurfaced *)
DeferNext ==
    \/ \E text \in CaptureTexts : Capture(text, NoTime)
    \/ \E i \in ItemIdInputs, m \in DeferModes \ {"until"} : DeferItem(i, m, NoTime)
    \/ \E i \in ItemIdInputs, t \in 0..MaxTime : DeferItem(i, "until", t)
    \/ \E i \in ItemIdInputs : CompleteItem(i)
    \/ \E i \in ItemIdInputs : ResurfaceItem(i)

DeferSpec ==
    /\ OneProcessInit
    /\ [][DeferNext]_vars

(* projects whose tasks are deferred, completed, archived and resurfaced *)
ProjectTasksNext ==
    \/ \E text \in CaptureTexts : Capture(text, NoTime)
    \/ \E name \in ProjectNames, ids \in SUBSET ItemIdInputs : CreateProject(name, ids)
    \/ \E i \in ItemIdInputs, m \in DeferModes \ {"until"} : DeferItem(i, m, NoTime)
    \/ \E i \in ItemIdInputs : DeferItem(i, "until", MaxTime)
    \/ \E i \in ItemIdInputs : CompleteItem(i)
    \/ \E i \in ItemIdInputs : ArchiveItem(i)
    \/ \E i \in ItemIdInputs : ResurfaceItem(i)

ProjectTasksSpec ==
    /\ OneProcessInit
    /\ [][ProjectTasksNext]_vars

(* a process-funnel session over an inbox of up to MaxSnapshot items: the   *)
(* snapshot is loaded, pairs are drawn and the stages write to the store   *)
FunnelNext ==
    \/ \E text \in CaptureTexts : Len(items) < MaxSnapshot /\ CaptureItem(text, NoTime)
    \/ ProcessStart
    \/ ProcessInboxItems
    \/ GetDedupPair
    \/ \E k \in ItemIdInputs, r \in ItemIdInputs : DedupMerge(k, r)
    \/ DedupKeepBoth
    \/ \E i \in ItemIdInputs : TwoMinDoNow(i)
    \/ \E i \in ItemIdInputs : TwoMinDelete(i)
    \/ \E name \in ProjectNames, ids \in SUBSET ItemIdInputs : CreateProject(name, ids)
    \/ \E i \in ItemIdInputs, t \in CaptureTexts :
            CoachApplySuggestion(i, t, FALSE, NoDuration)

FunnelSpec ==
    /\ OneProcessInit
    /\ [][FunnelNext]_vars

(* duplicates merged or kept among up to MaxSnapshot captured items, some  *)
(* of them completed, between calls that are rejected                      *)
MergeNext ==
    \/ \E text \in CaptureTexts : Len(items) < MaxSnapshot /\ CaptureItem(text, NoTime)
    \/ \E k \in ItemIdInputs, r \in ItemIdInputs : DedupMerge(k, r)
    \/ DedupKeepBoth
    \/ \E i \in ItemIdInputs : CompleteItem(i)
    \/ \E i \in ItemIdInputs, d \in DurationInputs \ VALID_DURATIONS : SetItemDuration(i, d)

MergeSpec ==
    /\ OneProcessInit
    /\ [][MergeNext]_vars

QuickWinDurations == {5, 60}

(* the quick-wins stage over tasks whose duration is set or left unknown *)
QuickWinNext ==
    \/ \E text \in CaptureTexts : Capture(text, NoTime)
    \/ \E i \in ItemIdInputs, d \in QuickWinDurations : SetItemDuration(i, d)
    \/ ProcessStart
    \/ Get2MinCurrent
    \/ TwoMinAdvance
    \/ \E i \in ItemIdInputs : TwoMinDoNow(i)
    \/ \E i \in ItemIdInputs : TwoMinDelete(i)

QuickWinSpec ==
    /\ OneProcessInit
    /\ [][QuickWinNext]_vars

(* suggestions applied to captured tasks, with and without an estimate *)
CoachNext ==
    \/ \E text \in CaptureTexts : Capture(text, NoTime)
    \/ \E i \in ItemIdInputs, t \in CoachTitles, a \in BOOLEAN, llm \in LlmAnswers :
            CoachApplySuggestion(i, t, a, llm)
    \/ \E i \in ItemIdInputs : CompleteItem(i)

CoachSpec ==
    /\ OneProcessInit
    /\ [][CoachNext]_vars

HeuristicChunks ==
    {" ", "task", "Reply ", "to ", "email", "Refactor ", "auth ", "module",
     "Proofread", "Review ", "Design ", "Draft "}

RECURSIVE TitlesUpTo(_)
TitlesUpTo(n) ==
    IF n = 0 THEN {<<>>}
    ELSE TitlesUpTo(n - 1)
            \cup {Append(t, c) : t \in {u \in TitlesUpTo(n - 1) : Len(u) = n - 1},
                                 c \in HeuristicChunks}

HeuristicTitles == TitlesUpTo(MaxTitleLen)

(* the keyword fallback asked about one title, whichever it is *)
HeuristicNext ==
    /\ returned = <<>>
    /\ \E title \in HeuristicTitles : EstimateDurationHeuristicCall(title)

HeuristicSpec ==
    /\ OneProcessInit
    /\ [][HeuristicNext]_vars

CoachAnswers == {"Email Sam the draft"}
DedupAnswers == {"duplicate", "distinct"}
ClusterAnswers ==
    {[none |-> TRUE, lines |-> <<>>],
     [none |-> FALSE, lines |-> <<[name |-> "Launch", parts |-> <<0, 1, 5>>],
                                  [name |-> "", parts |-> <<0>>]>>]}
CoachedTitles == {<<>>, <<" ">>, <<"task">>}

(* the stages of a funnel session with the AI provider answering, silent,  *)
(* failing or missing                                                      *)
AiNext ==
    \/ \E text \in CaptureTexts : Capture(text, NoTime)
    \/ ProcessStart
    \/ \E i \in ItemIdInputs : TwoMinDelete(i)
    \/ GetDedupPair
    \/ Get2MinCurrent
    \/ TwoMinAdvance
    \/ GetCoachCurrent
    \/ CoachAdvance
    \/ \E p \in ProviderTypes, r \in Responses, a \in ClusterAnswers :
            GetClusterSuggestions(p, r, a)
    \/ \E t \in CoachedTitles, p \in ProviderTypes, r \in Responses, a \in CoachAnswers :
            CoachTask(t, p, r, a)
    \/ \E t \in CoachedTitles, u \in CoachedTitles, p \in ProviderTypes,
          r \in Responses, a \in DedupAnswers :
            AreDuplicate(t, u, p, r, a)

AiSpec ==
    /\ OneProcessInit
    /\ [][AiNext]_vars

(* tag lists saved and tag lists asked for *)
FindTagLists == {<<>>, <<"api">>, <<"docs">>, <<"api", "docs">>}

(* saving resources and asking for those of some tags; once MaxRows rows   *)
(* of any tags are stored, more rows tagged api follow, up to one more     *)
(* than the default limit                                                  *)
FindNext ==
    \/ \E tags \in FindTagLists : Len(res_rows) < MaxRows /\ InsertResource(tags)
    \/ MaxRows <= Len(res_rows) /\ Len(res_rows) <= FIND_LIMIT /\ InsertResource(<<"api">>)
    \/ \E tags \in FindTagLists : FindResourcesByTags(tags, FIND_LIMIT)

FindSpec ==
    /\ OneProcessInit
    /\ [][FindNext]_vars

(* the tag lists a resource can be saved with: `flow save --tags a,a` keeps *)
(* both entries                                                            *)
RECURSIVE TagListsUpTo(_)
TagListsUpTo(n) ==
    IF n = 0 THEN {<<>>}
    ELSE LET shorter == TagListsUpTo(n - 1)
         IN  shorter \cup {Append(l, t) : l \in shorter, t \in TagNames}

TagLists == TagListsUpTo(MaxTags)

RankNext ==
    \/ \E tags \in TagLists : Len(res_rows) < MaxRows /\ InsertResource(tags)
    \/ \E tags \in FindTagLists : FindResourcesByTags(tags, FIND_LIMIT)

RankSpec ==
    /\ OneProcessInit
    /\ [][RankNext]_vars

(* a tag counted fewer than MaxUsage times, or not yet in the vocabulary *)
CanCount(name) == name \in TagRowNames(tag_rows) => UsageCount(tag_rows, name) < MaxUsage

(* a merge whose summed count is at most that of two fully counted tags *)
CanMerge(old_name, new_name) ==
    {old_name, new_name} \subseteq TagRowNames(tag_rows) =>
        UsageCount(tag_rows, old_name) + UsageCount(tag_rows, new_name) <= MaxUsage + MaxUsage

(* saving resources, counting their tags, merging one tag into another *)
TagMergeNext ==
    \/ \E tags \in TagLists : Len(res_rows) < MaxRows /\ InsertResource(tags)
    \/ \E name \in TagNames : CanCount(name) /\ IncrementTagUsage(name)
    \/ \E old_name \in TagNames, new_name \in TagNames :
            CanMerge(old_name, new_name) /\ MergeTags(old_name, new_name)

TagMergeSpec ==
    /\ OneProcessInit
    /\ [][TagMergeNext]_vars

(* counting tags up and down and merging them, with resources to re-tag *)
UsageNext ==
    \/ \E tags \in FindTagLists : Len(res_rows) < MaxRows /\ InsertResource(tags)
    \/ \E name \in TagNames : CanCount(name) /\ IncrementTagUsage(name)
    \/ \E name \in TagNames : DecrementTagUsage(name)
    \/ \E old_name \in TagNames, new_name \in TagNames :
            CanMerge(old_name, new_name) /\ MergeTags(old_name, new_name)

UsageSpec ==
    /\ OneProcessInit
    /\ [][UsageNext]_vars

(* the capture calls made: each text is captured in one way only *)
CaptureCalls ==
    {[text |-> <<"Reply">>, tags |-> <<"api", "docs">>, skip_auto_tag |-> FALSE],
     [text |-> <<"email">>, tags |-> <<"api">>, skip_auto_tag |-> TRUE],
     [text |-> <<" ", "module">>, tags |-> <<>>, skip_auto_tag |-> TRUE],
     [text |-> <<"task">>, tags |-> <<>>, skip_auto_tag |-> FALSE]}

(* what extract_tags answers *)
ExtractedTags == {<<>>, <<"docs">>, <<"docs", "api">>}

(* captures with and without tags, the auto-tagging threads, and items     *)
(* completed meanwhile                                                     *)
CaptureTagsNext ==
    \/ \E call \in CaptureCalls :
            /\ Len(items) < MaxItems
            /\ CaptureTagged(call.text, call.tags, call.skip_auto_tag)
    \/ \E thread \in tagging, extracted \in ExtractedTags : TaggingRead(thread, extracted)
    \/ \E thread \in tagging : TaggingWrite(thread)
    \/ \E i \in 1..MaxItems : CompleteItem(i)

CaptureTagsSpec ==
    /\ OneProcessInit
    /\ [][CaptureTagsNext]_vars

(* captures whose auto-tagging runs while a foreground call is rejected *)
AutoTagNext ==
    \/ \E call \in CaptureCalls :
            /\ Len(items) < MaxItems
            /\ CaptureTagged(call.text, call.tags, call.skip_auto_tag)
    \/ \E thread \in tagging, extracted \in ExtractedTags : TaggingRead(thread, extracted)
    \/ \E thread \in tagging : TaggingWrite(thread)
    \/ \E i \in 1..MaxItems, d \in DurationInputs \ VALID_DURATIONS : SetItemDuration(i, d)

AutoTagSpec ==
    /\ OneProcessInit
    /\ [][AutoTagNext]_vars

(* captures whose auto-tagging runs while the foreground completes and    *)
(* archives items and sets durations, some of them rejected                *)
TagRaceNext ==
    \/ \E call \in CaptureCalls :
            /\ Len(items) < MaxItems
            /\ CaptureTagged(call.text, call.tags, call.skip_auto_tag)
    \/ \E thread \in tagging, extracted \in ExtractedTags : TaggingRead(thread, extracted)
    \/ \E thread \in tagging : TaggingWrite(thread)
    \/ \E i \in 1..MaxItems : CompleteItem(i)
    \/ \E i \in 1..MaxItems : ArchiveItem(i)
    \/ \E i \in ItemIdInputs, d \in DurationInputs : SetItemDuration(i, d)

TagRaceSpec ==
    /\ OneProcessInit
    /\ [][TagRaceNext]_vars

(* a save that stays within the bounds on rows, jobs and usage counts *)
CanSave(source, final_tags, outcome) ==
    /\ GetResourceBySource(res_rows, source) = NoItem => Len(res_rows) < MaxRows
    /\ outcome # "enqueue fails" => Len(jobs) < MaxJobs
    /\ \A k \in 1..Len(final_tags) :
            Usage(tag_rows, final_tags[k]) + Count(final_tags, final_tags[k]) <= MaxUsage

SaveTagLists == {<<"api">>}

(* saves, each followed or not by the worker it starts draining the queue, *)
(* whose embedding store can be unavailable or fail                        *)
SaveNext ==
    \/ \E source \in Texts, final_tags \in SaveTagLists, outcome \in Outcomes :
            CanSave(source, final_tags, outcome) /\ Save(source, final_tags, outcome)
    \/ Acquire(1, MaxJobs)
    \/ StoreUnavailable(1)
    \/ ListPending(1)
    \/ MarkProcessing(1)
    \/ UpsertOk(1)
    \/ UpsertFails(1)
    \/ MarkDone(1)
    \/ MarkError(1)
    \/ Release(1)

SaveSpec ==
    /\ OneProcessInit
    /\ [][SaveNext]_vars

(* the tags of a save: none, one, two of which one is stored already, one  *)
(* name twice                                                              *)
ResaveTagLists == {<<>>, <<"api">>, <<"docs">>, <<"docs", "api">>, <<"api", "api">>}

(* saving sources, new ones and ones stored before, one job per save *)
ResaveNext ==
    \E source \in Texts, final_tags \in ResaveTagLists :
        /\ GetResourceBySource(res_rows, source) = NoItem => Len(res_rows) < MaxRows
        /\ Len(jobs) < MaxJobs
        /\ Save(source, final_tags, "started")

ResaveSpec ==
    /\ OneProcessInit
    /\ [][ResaveNext]_vars

(* answers of the LLM to the duration prompt: none, valid and other        *)
(* numbers, texts with and without a number                                *)
DurationAnswers ==
    {NoAnswer, IntAnswer(45), IntAnswer(1000), TextAnswer(<<>>), TextAnswer(<<7, 60>>)}

(* every way a duration is stored: set by hand, estimated on request,      *)
(* estimated when a coach suggestion is applied                            *)
DurationNext ==
    \/ \E text \in CaptureTexts : Capture(text, NoTime)
    \/ \E i \in ItemIdInputs, d \in DurationInputs : SetItemDuration(i, d)
    \/ \E i \in 1..MaxItems, use_llm \in BOOLEAN, out \in DurationAnswers :
            EstimateItemDuration(i, use_llm, out)
    \/ \E i \in 1..MaxItems, t \in CaptureTexts, out \in {NoAnswer, IntAnswer(45)} :
            CoachApplySuggestion(i, t, TRUE, EstimateDuration(t, out))

DurationSpec ==
    /\ OneProcessInit
    /\ [][DurationNext]_vars

(* every operation of the funnel, with the three cursors moved in any order *)
CursorNext ==
    \/ \E text \in CaptureTexts : Len(items) < MaxItems /\ CaptureItem(text, NoTime)
    \/ ProcessStart
    \/ ProcessInboxItems
    \/ GetDedupPair
    \/ DedupMerge(1, MaxItems)
    \/ DedupKeepBoth
    \/ Get2MinCurrent
    \/ TwoMinAdvance
    \/ TwoMinDoNow(1)
    \/ TwoMinDefer(1)
    \/ TwoMinDelete(MaxItems)
    \/ GetCoachCurrent
    \/ CoachAdvance
    \/ \E t \in CaptureTexts : CoachApplySuggestion(1, t, FALSE, NoDuration)

CursorSpec == OneProcessInit /\ [][CursorNext]_vars

(* a quick-win session of the process screen: captures, process_start, and *)
(* then one handler per item shown                                         *)
QuickSessionNext ==
    \/ \E text \in CaptureTexts :
            ~session.started /\ Len(items) < MaxSnapshot /\ CaptureItem(text, NoTime)
    \/ ProcessStart
    \/ DoNowAsync
    \/ DeleteAsync
    \/ \E m \in DeferModes \ {"until"} : DeferAsync(m, NoTime)
    \/ \E t \in 0..MaxTime : DeferAsync("until", t)

QuickSessionSpec == OneProcessInit /\ [][QuickSessionNext]_vars

(* one drain of a worker whose store is available, step by step *)
Drain(w) ==
    \/ ListPending(w)
    \/ MarkProcessing(w)
    \/ UpsertOk(w)
    \/ UpsertFails(w)
    \/ MarkDone(w)
    \/ MarkError(w)
    \/ Release(w)

(* the queue with the embedding capability available, drains started again *)
(* and again by the threads of one process, and workers that can be        *)
(* stopped part-way                                                        *)
DrainNext ==
    \/ \E r \in ResourceIds, t \in Texts : EnqueueResourceIndex(r, t)
    \/ \E w \in Workers : Acquire(w, MaxJobs)
    \/ \E w \in Workers : Drain(w)
    \/ \E w \in Workers : Stop(w)

(* a worker that is running takes its next step, and a drain that can be   *)
(* started again and again is started; stopping a worker is never forced   *)
DrainFairness ==
    \A w \in Workers : WF_vars(Drain(w)) /\ SF_vars(Acquire(w, MaxJobs))

DrainSpec == OneProcessInit /\ [][DrainNext]_vars /\ DrainFairness

AssignSpec ==
    /\ OneProcessInit
    /\ [][AssignNext]_vars

StaleIdSpec ==
    /\ OneProcessInit
    /\ [][StaleIdNext]_vars

(* the index queue, its workers threads of one process or processes of     *)
(* their own                                                               *)
QueueSpec ==
    /\ Init
    /\ [][QueueNext]_vars

(* the index queue with every worker a thread of the same process *)
ThreadsSpec ==
    /\ OneProcessInit
    /\ [][QueueNext]_vars

Next ==
    \/ LifecycleNext \/ GroupingNext \/ StoreNext \/ DeferNext \/ ProjectTasksNext
    \/ FunnelNext \/ MergeNext \/ QuickWinNext \/ CoachNext \/ HeuristicNext \/ AiNext
    \/ AssignNext \/ StaleIdNext \/ QueueNext
    \/ FindNext \/ RankNext \/ TagMergeNext \/ UsageNext \/ CaptureTagsNext
    \/ AutoTagNext \/ TagRaceNext \/ SaveNext \/ ResaveNext \/ DurationNext
    \/ CursorNext \/ QuickSessionNext \/ DrainNext

Spec == Init /\ [][Next]_vars

-----------------------------------------------------------------------------
(* Claims *)

StoredIds == 1..Len(items)

ValidationErrors ==
    {"ValueError: title", "ValueError: duration",
     "ValueError: item not found", "ValueError: not a project"}

InListInbox(i) == \E k \in 1..Len(ListInbox(items)) : ListInbox(items)[k].id = i

(* C1: a stored item is in list_inbox() exactly when it is an active inbox *)
(* item without a parent whose defer_until is absent or not later than now *)
C1_InboxVisibility ==
    \A i \in StoredIds :
        InListInbox(i) <=>
            /\ items[i].type = "inbox"
            /\ items[i].status = "active"
            /\ items[i].parent_id = NoId
            /\ (items[i].defer_until = NoTime \/ items[i].defer_until <= now)

ResolvesToProject(id) == id \in StoredIds /\ items[id].type = "project"

(* C2: every non-null parent_id names a stored item of type project *)
C2_ParentIsProject ==
    \A i \in StoredIds :
        items[i].parent_id # NoId => ResolvesToProject(items[i].parent_id)

(* C8: assign_item_to_project with a project_id that is missing or names   *)
(* an item of another type raises a validation error and changes no item   *)
C8_AssignRejectsNonProject ==
    [][\A i \in ItemIdInputs, p \in ItemIdInputs :
          (AssignItemToProject(i, p) /\ ~ResolvesToProject(p))
              => (raised' \in ValidationErrors /\ items' = items)]_vars

(* C8 witness: the call was rejected over a store holding two tasks, so    *)
(* both a missing id and a task id were refused                            *)
C8_Witness ==
    /\ raised = "ValueError: not a project"
    /\ Len(items) = 2
    /\ \A i \in StoredIds : items[i].type = "inbox" /\ items[i].parent_id = NoId

(* the mutations of the claim, called on item id i *)
StaleCall(i) ==
    \/ ArchiveItem(i)
    \/ ResurfaceItem(i)
    \/ CompleteItem(i)
    \/ \E m \in DeferModes : DeferItem(i, m, MaxTime)
    \/ \E o \in ItemIdInputs : DedupMerge(i, o) \/ DedupMerge(o, i)
    \/ TwoMinDoNow(i)
    \/ TwoMinDelete(i)
    \/ \E t \in CoachTitles \ {<<>>, <<" ">>}, a \in BOOLEAN, llm \in LlmAnswers :
            CoachApplySuggestion(i, t, a, llm)

StaleSetDuration(i) == \E d \in VALID_DURATIONS : SetItemDuration(i, d)

StaleReads == \A i \in StaleIds : GetItem(items, i) = NoItem

-----------------------------------------------------------------------------
(* Claims about the index queue *)

JobIds == 1..Len(jobs)

LegalJobTransitions ==
    {<<"pending", "processing">>, <<"processing", "done">>, <<"processing", "error">>}

(* C3: every status change of an index job is pending->processing,         *)
(* processing->done or processing->error, so done and error are final and  *)
(* no job returns to pending                                               *)
C3_JobTransitions ==
    [][\A j \in JobIds :
          jobs'[j].status # jobs[j].status
              => <<jobs[j].status, jobs'[j].status>> \in LegalJobTransitions]_vars

(* between listing a non-empty batch and finishing its last job *)
Draining(w) == pc[w] \in {"mark_processing", "upsert", "mark_done", "mark_error"}

(* C4: at most one worker is draining a batch at any time *)
C4_SingleDrainer == Cardinality({w \in Workers : Draining(w)}) <= 1

BatchJob(w, k) == jobs[batch[w][k].id]

(* the call is about to return: every job it fetched is done or error, and *)
(* it returns the number of jobs it marked done                            *)
BatchSettled(w) ==
    /\ idx[w] = Len(batch[w])
    /\ \A k \in 1..Len(batch[w]) : BatchJob(w, k).status \in {"done", "error"}
    /\ processed[w] =
          Cardinality({k \in 1..Len(batch[w]) : BatchJob(w, k).status = "done"})

(* C5: a failed upsert leaves its job with status error and a message, the *)
(* call goes on to the next job instead of ending with the exception, and  *)
(* when it returns every job of the batch is done or error                 *)
C5_FailureIsRecorded ==
    /\ [](\A w \in Workers : pc[w] = "release" => BatchSettled(w))
    /\ [](\A j \in JobIds : jobs[j].status = "error" <=> jobs[j].error # NoError)
    /\ [][\A w \in Workers :
            /\ UpsertFails(w) => pc'[w] = "mark_error"
            /\ MarkError(w) =>
                  /\ jobs'[Current(w).id].status = "error"
                  /\ jobs'[Current(w).id].error # NoError
                  /\ idx'[w] = idx[w] + 1]_vars

(* C5 witness: a call is returning from a batch of two whose first job     *)
(* failed and whose second job was indexed after it                        *)
C5_Witness ==
    \E w \in Workers :
        /\ pc[w] = "release"
        /\ Len(batch[w]) = 2
        /\ BatchJob(w, 1).status = "error"
        /\ BatchJob(w, 1).error # NoError
        /\ BatchJob(w, 2).status = "done"
        /\ processed[w] = 1

InBatch(b, j) == \E k \in 1..Len(b) : b[k].id = j

(* C6: the batch a call fetches has at most `limit` jobs, all pending, in  *)
(* ascending created_at, none later than a pending job left out; a job     *)
(* leaves pending only as the current job of a call that has already       *)
(* handled every job before it in its batch                                *)
C6_FifoBatch ==
    [][/\ \A w \in Workers :
            /\ ListPending(w) =>
                  LET b == batch'[w]
                  IN  /\ Len(b) <= limit[w]
                      /\ \A k \in 1..Len(b) : jobs[b[k].id].status = "pending"
                      /\ \A k \in 1..(Len(b) - 1) :
                            b[k].created_at <= b[k + 1].created_at
                      /\ \A j \in JobIds :
                            (jobs[j].status = "pending" /\ ~InBatch(b, j))
                                => \A k \in 1..Len(b) :
                                      b[k].created_at <= jobs[j].created_at
            /\ MarkProcessing(w) =>
                  \A k \in 1..idx[w] : BatchJob(w, k).status \in {"done", "error"}
       /\ \A j \in JobIds :
            (jobs[j].status = "pending" /\ jobs'[j].status # "pending")
                => \E v \in Workers : MarkProcessing(v) /\ Current(v).id = j]_vars

(* C6 witness: a call with limit 1 is returning; it indexed the older job  *)
(* and left the newer one pending                                          *)
C6_Witness ==
    \E w \in Workers :
        /\ pc[w] = "release"
        /\ limit[w] = 1
        /\ Len(jobs) = 2
        /\ jobs[1].created_at < jobs[2].created_at
        /\ InBatch(batch[w], 1)
        /\ jobs[1].status = "done"
        /\ jobs[2].status = "pending"

Embeddings(resource_id) == {e \in collection : e.id = resource_id}

(* a call is returning from a batch of two jobs for one resource *)
TwoJobsOneResource(w) ==
    /\ pc[w] = "release"
    /\ Len(batch[w]) = 2
    /\ batch[w][1].resource_id = batch[w][2].resource_id

(* C7: the store never holds two embeddings of one resource, each upsert   *)
(* leaves the text it wrote as that resource's only embedding, and a call  *)
(* over two jobs for one resource in which no upsert failed returns with   *)
(* both jobs done and the embedding written for the second job             *)
C7_LastWriteWins ==
    /\ [](\A r \in ResourceIds : Cardinality(Embeddings(r)) <= 1)
    /\ [](\A w \in Workers :
            (TwoJobsOneResource(w) /\ \A k \in 1..2 : BatchJob(w, k).status # "error")
                => /\ \A k \in 1..2 : BatchJob(w, k).status = "done"
                   /\ Cardinality(Embeddings(batch[w][1].resource_id)) = 1
                   /\ GetResource(batch[w][2].resource_id) = NoText
                        => Embeddings(batch[w][2].resource_id) =
                              {[id |-> batch[w][2].resource_id,
                                document |-> batch[w][2].text]})
    /\ [][\A w \in Workers :
            UpsertOk(w) =>
                {e \in collection' : e.id = Current(w).resource_id} =
                    {[id |-> Current(w).resource_id,
                      document |-> IndexText(Current(w))]}]_vars

(* C7 witness: two jobs for one resource carried different texts, both are *)
(* done, and the store holds the text of the second                        *)
C7_Witness ==
    \E w \in Workers :
        /\ TwoJobsOneResource(w)
        /\ batch[w][1].text # batch[w][2].text
        /\ BatchJob(w, 1).status = "done"
        /\ BatchJob(w, 2).status = "done"
        /\ collection = {[id |-> batch[w][2].resource_id,
                          document |-> batch[w][2].text]}

-----------------------------------------------------------------------------
(* Claims about archival, deferral and the listings *)

(* C11: no step removes an item: every stored id still resolves to an item *)
(* of that id afterwards; archive_item and the quick-win delete change     *)
(* only the status of their item, to archived, and dedup_merge changes no  *)
(* status except to archived                                               *)
C11_ItemsAreNeverRemoved ==
    [][/\ Len(items') >= Len(items)
       /\ \A i \in StoredIds :
            /\ GetItem(items', i) # NoItem
            /\ GetItem(items', i).id = i
       /\ \A i \in StoredIds :
            (ArchiveItem(i) \/ TwoMinDelete(i))
                => items' = [items EXCEPT ![i].status = "archived"]
       /\ \A k \in ItemIdInputs, r \in ItemIdInputs :
            DedupMerge(k, r) =>
                \A i \in StoredIds :
                    items'[i].status \in {items[i].status, "archived"}]_vars

(* C11 witness: one item was merged into the other and archived, the other *)
(* archived afterwards, and both are still stored                          *)
C11_Witness ==
    /\ Len(items) = 2
    /\ \A i \in StoredIds : GetItem(items, i).status = "archived"
    /\ \E i \in StoredIds : Len(items[i].title) = 3

(* defer_item(id, "waiting") applied to a store *)
DeferredWaiting(its, i) == Deferred(its, i, "waiting", NoTime)

(* C12: for every stored item, defer_item(id, "waiting") applied twice     *)
(* leaves the store as applying it once does                               *)
C12_DeferWaitingIdempotent ==
    \A i \in StoredIds :
        DeferredWaiting(DeferredWaiting(items, i), i) = DeferredWaiting(items, i)

(* C12 witness: one item has been deferred to waiting, another is done, so *)
(* the second application is tried on waiting, done and active items       *)
C12_Witness ==
    /\ Len(items) = 2
    /\ items[1].status = "waiting"
    /\ items[2].status = "done"

(* C13: defer_item(id, "until", t) changes nothing but the item's          *)
(* defer_until, which becomes t: the status of an active item stays active *)
C13_DeferUntilKeepsStatus ==
    [][\A i \in StoredIds, t \in 0..MaxTime :
          DeferItem(i, "until", t) =>
              /\ items' = [items EXCEPT ![i].defer_until = t]
              /\ items[i].status = "active" => items'[i].status = "active"]_vars

(* C13 witness: an active item carries a defer_until that only defer_item  *)
(* can have written                                                        *)
C13_Witness ==
    \E i \in StoredIds :
        /\ items[i].status = "active"
        /\ items[i].defer_until = MaxTime

InNextActions(i) ==
    \E k \in 1..Len(NextActions(NoId)) : NextActions(NoId)[k].id = i

(* C14: an active task whose defer_until is later than now is not in       *)
(* next_actions(), and one whose defer_until is now or earlier is          *)
C14_NextActionsHonourDeferUntil ==
    \A i \in StoredIds :
        (/\ items[i].status = "active"
         /\ items[i].type # "project"
         /\ items[i].defer_until # NoTime)
            => (InNextActions(i) <=> items[i].defer_until <= now)

(* C15: next_actions() returns no item of type project *)
C15_NextActionsHaveNoProject ==
    \A k \in 1..Len(NextActions(NoId)) : NextActions(NoId)[k].type # "project"

(* the children of p that are active, waiting or someday *)
OpenChildren(p) ==
    {i \in StoredIds :
        items[i].parent_id = p /\ items[i].status \in {"active", "waiting", "someday"}}

-----------------------------------------------------------------------------
(* The process funnel's working set *)

Ids(its) == [i \in 1..Len(its) |-> its[i].id]

(* C17: between one process_start and the next the working set keeps the   *)
(* entries process_start loaded, in their order: no funnel write and no    *)
(* capture adds, removes or reorders them                                  *)
C17_SnapshotIsFixed ==
    session.started => Ids(process_inbox) = Ids(session.loaded)

(* C18: with k pairs handed out since process_start over a snapshot of n   *)
(* items, the next get_dedup_pair returns the snapshot's entries k and k+1 *)
(* (counted from 0) while k + 1 < n, and None after that, whatever was     *)
(* done with the earlier pairs                                             *)
C18_DedupPairsFollowSnapshot ==
    [][(session.started /\ GetDedupPair) =>
        LET n == Len(session.loaded)
            k == dedup_index
        IN  IF k + 1 < n
            THEN Ids(returned') = <<session.loaded[k + 1].id, session.loaded[k + 2].id>>
            ELSE returned' = <<>>]_vars

-----------------------------------------------------------------------------
(* Merging duplicates *)

(* the store after merging row remove_id into row keep_id *)
Merged(keep_id, remove_id) ==
    [i \in 1..Len(items) |->
        IF i = keep_id
        THEN [items[i] EXCEPT !.title = items[keep_id].title \o <<" / ">> \o items[remove_id].title]
        ELSE IF i = remove_id THEN [items[i] EXCEPT !.status = "archived"]
        ELSE items[i]]

(* C19: dedup_merge(keep, remove) on two distinct stored items sets keep's *)
(* title to keep's title, " / ", remove's title and remove's status to     *)
(* archived and changes nothing else in the store; dedup_keep_both changes *)
(* no item                                                                 *)
C19_DedupMergeWrites ==
    /\ [][\A k \in StoredIds, r \in StoredIds :
            (k # r /\ DedupMerge(k, r)) => items' = Merged(k, r)]_vars
    /\ [][DedupKeepBoth => items' = items]_vars

(* a completed item that took the title of the second, which is archived,  *)
(* next to a third that was not part of the merge                          *)
C19_Witness ==
    /\ Len(items) = 3
    /\ items[1].title = <<"task", " / ", "task">>
    /\ items[1].status = "done"
    /\ items[2].title = <<"task">>
    /\ items[2].status = "archived"
    /\ items[3].title = <<"task">>
    /\ items[3].status = "active"

-----------------------------------------------------------------------------
(* Creating a project *)

InboxIdsAfter == {ListInbox(items')[k].id : k \in 1..Len(ListInbox(items'))}

(* C20: create_project(name, ids) stores exactly one new item, a project   *)
(* with status active; every stored item named in ids ends with the new    *)
(* project as parent and type action and is not in list_inbox afterwards;  *)
(* the other items are untouched and ids that match no item raise nothing  *)
C20_CreateProjectGroups ==
    [][\A name \in ProjectNames, ids \in SUBSET ItemIdInputs :
        CreateProject(name, ids) =>
            LET p == Len(items) + 1
            IN  /\ Len(items') = p
                /\ items'[p].id = p
                /\ items'[p].type = "project"
                /\ items'[p].status = "active"
                /\ \A i \in StoredIds :
                      IF i \in ids
                      THEN /\ items'[i].parent_id = p
                           /\ items'[i].type = "action"
                           /\ i \notin InboxIdsAfter
                      ELSE items'[i] = items[i]
                /\ raised' = "none"]_vars

(* a captured item grouped under the project created after it *)
C20_Witness ==
    /\ Len(items) = 2
    /\ items[2].type = "project"
    /\ items[2].status = "active"
    /\ items[1].parent_id = 2
    /\ items[1].type = "action"
    /\ ~InListInbox(1)

-----------------------------------------------------------------------------
(* The quick-wins and coach stages *)

Live == SelectSeq(process_inbox, IsNotArchived)

Entries(seq) == {seq[i] : i \in 1..Len(seq)}

(* C21: the quick-wins selection holds at most 20 items, none archived;    *)
(* when some non-archived entry of the working set is a short task the     *)
(* selection holds short tasks only, and otherwise only tasks of unknown   *)
(* duration                                                                *)
C21_QuickWinsPreferShort ==
    /\ Len(Get2MinItems) <= 20
    /\ \A it \in Entries(Get2MinItems) : it.status # "archived"
    /\ IF \E it \in Entries(Live) : IsShortTask(it)
       THEN \A it \in Entries(Get2MinItems) : IsShortTask(it)
       ELSE \A it \in Entries(Get2MinItems) : IsUnknownTask(it)

IsBlank(title) == \A k \in 1..Len(title) : title[k] = " "

-----------------------------------------------------------------------------
(* The keyword fallback of the duration estimate *)

Buckets ==
    <<[keywords |-> quick_keywords, minutes |-> 5],
      [keywords |-> short_keywords, minutes |-> 15],
      [keywords |-> medium_keywords, minutes |-> 30],
      [keywords |-> long_keywords, minutes |-> 60],
      [keywords |-> deep_keywords, minutes |-> 120]>>

Matching(title) ==
    LET lowered == TitleLower(title)
    IN  {b \in 1..Len(Buckets) : \E kw \in Buckets[b].keywords : Occurs(kw, lowered)}

IsEstimate(r) == Len(r) = 1 /\ "minutes" \in DOMAIN r[1]

(* C23: estimate_duration_heuristic(title) is the value of the first       *)
(* bucket, in the order quick 5, short 15, medium 30, long 60, deep 120,   *)
(* one of whose keywords occurs in the lower-cased title, and 30 when no   *)
(* bucket matches or the title is empty or whitespace; "Reply to email"    *)
(* gives 5, "Refactor auth module" 120 and "" 30                           *)
C23_HeuristicBuckets ==
    IsEstimate(returned) =>
        LET title == returned[1].title
            minutes == returned[1].minutes
            text == Text(title)
            matching == Matching(title)
        IN  /\ minutes = IF \A k \in 1..Len(text) : text[k] = " " THEN 30
                         ELSE IF matching = {} THEN 30
                         ELSE Buckets[CHOOSE b \in matching : \A c \in matching : b <= c].minutes
            /\ title = <<"Reply ", "to ", "email">> => minutes = 5
            /\ title = <<"Refactor ", "auth ", "module">> => minutes = 120
            /\ title = <<>> => minutes = 30

(* a title with keywords of two buckets, one of them inside a longer word, *)
(* estimated by the earlier bucket                                         *)
C23_Witness ==
    /\ IsEstimate(returned)
    /\ returned[1].title = <<"Design ", "Proofread">>
    /\ returned[1].minutes = 15

-----------------------------------------------------------------------------
(* The funnel without the AI capability *)

(* no provider, or a provider whose call does not give a text *)
Unavailable(provider, response) == provider = "none" \/ response # "text"

(* C24: while the AI capability is unavailable no funnel operation raises: *)
(* get_cluster_suggestions returns [], the coach suggestion and the        *)
(* duplicate classification return None; get_dedup_pair, get_2min_current  *)
(* and get_coach_current return None on an empty or exhausted working set  *)
C24_UnavailableAiIsSilent ==
    [][/\ \A p \in ProviderTypes, r \in Responses :
            Unavailable(p, r) =>
                /\ \A a \in ClusterAnswers :
                      GetClusterSuggestions(p, r, a) =>
                          raised' = "none" /\ returned' = <<[clusters |-> <<>>]>>
                /\ \A t \in CoachedTitles, a \in CoachAnswers :
                      CoachTask(t, p, r, a) => raised' = "none" /\ returned' = <<>>
                /\ \A t \in CoachedTitles, u \in CoachedTitles, a \in DedupAnswers :
                      AreDuplicate(t, u, p, r, a) => raised' = "none" /\ returned' = <<>>
       /\ (GetDedupPair /\ dedup_index + 1 >= Len(Live)) =>
              raised' = "none" /\ returned' = <<>>
       /\ (Get2MinCurrent /\ two_min_index >= Len(Live)) =>
              raised' = "none" /\ returned' = <<>>
       /\ (GetCoachCurrent /\ coach_index >= Len(CoachItems)) =>
              raised' = "none" /\ returned' = <<>>]_vars

-----------------------------------------------------------------------------
(* Resources by tags *)

(* the row holds at least one of the tags asked for *)
Shares(row, tags) == Range(row.tags) \cap Range(tags) # {}

Sharing(tags) == {r.id : r \in {row \in Range(res_rows) : Shares(row, tags)}}

(* the ids of a result of find_resources_by_tags *)
Found(value) == UNION Range(value)

Min(a, b) == IF a <= b THEN a ELSE b

(* C25 as stated: find_resources_by_tags(tags) returns every resource that *)
(* shares at least one tag with the query and no other, and an empty list  *)
(* for an empty query                                                      *)
C25_FindReturnsEverySharing ==
    db_result.call = "find_resources_by_tags" =>
        LET tags == db_result.args[1]
        IN  /\ tags = <<>> => db_result.value = <<>>
            /\ Found(db_result.value) = Sharing(tags)

(* C25: find_resources_by_tags(tags) returns only resources that share at  *)
(* least one tag with the query, as many of them as there are up to the    *)
(* limit (100 by default), so all of them when no more than the limit      *)
(* share a tag; for an empty query it returns an empty list                *)
C25_FindReturnsSharingUpToLimit ==
    db_result.call = "find_resources_by_tags" =>
        LET tags == db_result.args[1]
            lim == db_result.args[2]
            found == Found(db_result.value)
        IN  /\ tags = <<>> => db_result.value = <<>>
            /\ found \subseteq Sharing(tags)
            /\ Cardinality(found) = Min(Cardinality(Sharing(tags)), lim)
            /\ Size(db_result.value) = Cardinality(found)

(* a query that some stored resource shares a tag with and another does not *)
C25_Witness ==
    /\ db_result.call = "find_resources_by_tags"
    /\ Found(db_result.value) # {}
    /\ \E r \in Range(res_rows) : r.tags # <<>> /\ r.id \notin Found(db_result.value)

(* the number of the tags asked for that the resource holds *)
Held(id, tags) == Cardinality(Range(res_rows[id].tags) \cap Range(tags))

(* C26: in the list returned by find_resources_by_tags(tags) the number of *)
(* query tags each resource holds is non-increasing; checked for every     *)
(* pair of results whose order the query fixes, the earlier holding at     *)
(* least as many of the query's tags as the later                          *)
C26_RankedByTagsHeld ==
    db_result.call = "find_resources_by_tags" =>
        \A i \in 1..Len(db_result.value), j \in 1..Len(db_result.value) :
            i < j => \A a \in db_result.value[i], b \in db_result.value[j] :
                        Held(a, db_result.args[1]) >= Held(b, db_result.args[1])

-----------------------------------------------------------------------------
(* Tag merge and usage counts *)

Holders(rows, name) == {k \in 1..Len(rows) : name \in Range(rows[k].tags)}

(* C27: after merge_tags(old, new), old # new, no resource holds old,      *)
(* every resource that held old holds new exactly once, old is not in the  *)
(* tag vocabulary, and the number returned is the number of resources that *)
(* held old before the call                                                *)
C27_MergeRetagsEveryHolder ==
    [][\A old_name \in TagNames, new_name \in TagNames :
          (old_name # new_name /\ MergeTags(old_name, new_name)) =>
              /\ Holders(res_rows', old_name) = {}
              /\ \A k \in Holders(res_rows, old_name) :
                    Count(res_rows'[k].tags, new_name) = 1
              /\ old_name \notin TagRowNames(tag_rows')
              /\ db_result'.value = <<Cardinality(Holders(res_rows, old_name))>>]_vars

RECURSIVE TotalUsage(_)
TotalUsage(rows) ==
    IF rows = {} THEN 0
    ELSE LET t == CHOOSE t \in rows : TRUE
         IN  t.usage_count + TotalUsage(rows \ {t})

(* C28: after merge_tags(old, new), old # new, the usage count of new is   *)
(* the count old had plus the count new had, whether or not new was in    *)
(* the vocabulary, and the total usage count over the vocabulary is        *)
(* unchanged                                                               *)
C28_MergeSumsUsage ==
    [][\A old_name \in TagNames, new_name \in TagNames :
          (old_name # new_name /\ MergeTags(old_name, new_name)) =>
              /\ Usage(tag_rows', new_name) =
                    Usage(tag_rows, old_name) + Usage(tag_rows, new_name)
              /\ TotalUsage(tag_rows') = TotalUsage(tag_rows)]_vars

(* C29: under increment_tag_usage, decrement_tag_usage and merge_tags      *)
(* every usage_count stays at or above 0; increment on an absent tag       *)
(* creates it with count 1, increment on a present tag adds 1, decrement   *)
(* at 0 leaves 0                                                           *)
C29_UsageCountNeverNegative ==
    /\ [](\A t \in tag_rows : t.usage_count >= 0)
    /\ [][\A name \in TagNames :
            /\ IncrementTagUsage(name) =>
                  /\ name \in TagRowNames(tag_rows')
                  /\ UsageCount(tag_rows', name) =
                        IF name \in TagRowNames(tag_rows)
                        THEN UsageCount(tag_rows, name) + 1 ELSE 1
                  /\ \A t \in tag_rows : t.name # name => t \in tag_rows'
            /\ (DecrementTagUsage(name) /\ Usage(tag_rows, name) = 0) =>
                  tag_rows' = tag_rows]_vars

(* both tags counted down to 0, the last call a decrement *)
C29_Witness ==
    /\ db_result.call = "decrement_tag_usage"
    /\ TagRowNames(tag_rows) = TagNames
    /\ \A t \in tag_rows : t.usage_count = 0

-----------------------------------------------------------------------------
(* Capture with tags *)

(* the capture calls that made an item of this title *)
CallsOf(item) == {call \in CaptureCalls : Strip(call.text) = item.title}

(* C30: capture(text, tags=T) with non-empty T stores exactly T as the     *)
(* item's tags and starts no auto-tagging; capture(text, skip_auto_tag)    *)
(* returns an item with empty tags and no background write ever adds tags  *)
(* to that item; in the default case the item returned has empty tags      *)
C30_ExplicitTagsShortCircuit ==
    /\ [](\A k \in 1..Len(items) : \A call \in CallsOf(items[k]) :
            (call.tags # <<>> \/ call.skip_auto_tag) =>
                /\ items[k].context_tags = call.tags
                /\ \A thread \in tagging : thread.item_id # items[k].id)
    /\ [][\A call \in CaptureCalls :
            CaptureTagged(call.text, call.tags, call.skip_auto_tag) =>
                /\ returned'[1].context_tags = call.tags
                /\ items'[Len(items')] = returned'[1]
                /\ (call.tags # <<>> \/ call.skip_auto_tag) => tagging' = tagging]_vars

(* an item captured by default that the thread has tagged since, next to   *)
(* an item captured with skip_auto_tag, every thread finished              *)
C30_Witness ==
    /\ tagging = {}
    /\ \E k \in 1..Len(items) :
            /\ items[k].title = <<"task">>
            /\ items[k].context_tags # <<>>
    /\ \E k \in 1..Len(items) :
            /\ items[k].title = <<"module">>
            /\ items[k].context_tags = <<>>

-----------------------------------------------------------------------------
(* Background auto-tagging *)

(* what the foreground sees of a call: the exception and the value *)
Foreground == <<raised, returned>>

(* C31: an auto-tag attempt that fails (extract_tags gives no tags), or    *)
(* that finds its item gone, ends without writing an item or a usage       *)
(* count; a thread writes only with the tags extracted for an item it      *)
(* read, and no step of a thread changes what a foreground call raised or  *)
(* returned                                                                *)
C31_FailedTaggingWritesNothing ==
    [][\A thread \in tagging :
          /\ (\E extracted \in ExtractedTags :
                /\ TaggingRead(thread, extracted)
                /\ extracted = <<>> \/ GetItem(items, thread.item_id) = NoItem) =>
                    /\ items' = items
                    /\ tag_rows' = tag_rows
                    /\ thread \notin tagging'
                    /\ \A other \in tagging' : other.item_id # thread.item_id
                    /\ Foreground' = Foreground
          /\ (\E extracted \in ExtractedTags : TaggingRead(thread, extracted)) =>
                    /\ items' = items
                    /\ tag_rows' = tag_rows
                    /\ Foreground' = Foreground
          /\ TaggingWrite(thread) =>
                    /\ thread.tags # <<>>
                    /\ thread.item # NoItem
                    /\ Foreground' = Foreground]_vars

(* a default capture whose attempt failed: the thread is gone, the item    *)
(* has no tags and no tag was counted, while a foreground call has raised  *)
C31_Witness ==
    /\ tagging = {}
    /\ tag_rows = {}
    /\ raised # "none"
    /\ \E k \in 1..Len(items) :
            /\ items[k].title = <<"task">>
            /\ items[k].context_tags = <<>>

-----------------------------------------------------------------------------
(* flow save and the index worker *)

(* the steps of the index worker *)
WorkerStep ==
    \E w \in Workers :
        \/ \E n \in Limits : Acquire(w, n)
        \/ StoreUnavailable(w)
        \/ ListPending(w)
        \/ MarkProcessing(w)
        \/ UpsertOk(w)
        \/ UpsertFails(w)
        \/ MarkDone(w)
        \/ MarkError(w)
        \/ Release(w)

(* C32: a save completes without an error and its resource is stored with  *)
(* the tags given, also when the enqueue or the start of the worker fails; *)
(* no step of a worker, failing or not, changes a stored resource or what  *)
(* the foreground raised                                                   *)
C32_WorkerFailureStaysInBackground ==
    [][/\ \A source \in Texts, final_tags \in SaveTagLists, outcome \in Outcomes :
            Save(source, final_tags, outcome) =>
                /\ raised' = "none"
                /\ \E k \in 1..Len(res_rows') :
                        /\ res_rows'[k].source = source
                        /\ Range(final_tags) \subseteq Range(res_rows'[k].tags)
                /\ \A k \in 1..Len(res_rows) : \E j \in 1..Len(res_rows') :
                        res_rows'[j].source = res_rows[k].source
       /\ WorkerStep =>
                /\ res_rows' = res_rows
                /\ tag_rows' = tag_rows
                /\ raised' = raised
                /\ db_result' = db_result]_vars

(* a save whose worker could not be started, and whose resource is stored; *)
(* an earlier job failed in the worker                                     *)
C32_Witness ==
    /\ db_result.call = "save"
    /\ db_result.args[3] = "start fails"
    /\ raised = "none"
    /\ \E k \in 1..Len(res_rows) : res_rows[k].source = db_result.args[1]
    /\ \E j \in 1..Len(jobs) : jobs[j].status = "error"

(* where the name first occurs in the list *)
FirstIndex(tags, name) == CHOOSE k \in 1..Len(tags) :
                            tags[k] = name /\ \A j \in 1..(k - 1) : tags[j] # name

(* C33: saving a source that is already stored adds no resource: the       *)
(* resource keeps its id and its tags become the old tags followed by the  *)
(* new tags not already present, each tag once; no two resources ever      *)
(* share a source                                                          *)
C33_ResaveMergesTags ==
    /\ [](\A i \in 1..Len(res_rows), j \in 1..Len(res_rows) :
            res_rows[i].source = res_rows[j].source => i = j)
    /\ [][\A source \in Texts, final_tags \in ResaveTagLists :
            (Save(source, final_tags, "started")
                /\ GetResourceBySource(res_rows, source) # NoItem) =>
                LET old == GetResourceBySource(res_rows, source)
                    new == GetResourceBySource(res_rows', source)
                    given == old.tags \o final_tags
                IN  /\ Len(res_rows') = Len(res_rows)
                    /\ new.id = old.id
                    /\ \A k \in 1..Len(res_rows) :
                            res_rows[k].id # old.id => res_rows'[k] = res_rows[k]
                    /\ Range(new.tags) = Range(given)
                    /\ \A i \in 1..Len(new.tags), j \in 1..Len(new.tags) :
                            i < j => FirstIndex(given, new.tags[i]) <
                                     FirstIndex(given, new.tags[j])]_vars

(* a source saved with [api] and saved again with [docs, api] *)
C33_Witness ==
    /\ db_result.call = "save"
    /\ db_result.args[2] = <<"docs", "api">>
    /\ Len(res_rows) = 1
    /\ res_rows[1].tags = <<"api", "docs">>

-----------------------------------------------------------------------------
(* Durations *)

(* C34: every item's estimated_duration is unset or one of 5, 15, 30, 60,  *)
(* 120; set_item_duration with another value raises a validation error and *)
(* changes nothing, and every automatic estimate, from an AI answer or     *)
(* from the keywords, stores one of the five values                        *)
C34_DurationsAreValid ==
    /\ [](\A k \in 1..Len(items) :
            items[k].estimated_duration \in VALID_DURATIONS \cup {NoDuration})
    /\ [][/\ \A i \in ItemIdInputs, d \in DurationInputs :
                (d \notin VALID_DURATIONS /\ SetItemDuration(i, d)) =>
                    /\ raised' \in ValidationErrors
                    /\ items' = items
          /\ \A i \in StoredIds :
                items'[i].estimated_duration # items[i].estimated_duration =>
                    items'[i].estimated_duration \in VALID_DURATIONS]_vars

(* an estimate rounded from an answer that is none of the five values,     *)
(* after a rejected set_item_duration                                      *)
C34_Witness ==
    /\ \E k \in 1..Len(items) : items[k].estimated_duration = 120
    /\ \E k \in 1..Len(items) : items[k].estimated_duration = 30

-----------------------------------------------------------------------------
(* Cursors *)

(* C35: once get_dedup_pair has returned None in a session every later     *)
(* get_dedup_pair of the session returns None, whatever was merged,        *)
(* captured or completed in between; the pairs returned in a session over  *)
(* a snapshot of n items, which the dedup cursor counts, are at most n - 1 *)
C35_DedupStaysExhausted ==
    /\ [][(session.dedup_done /\ GetDedupPair) => returned' = <<>>]_vars
    /\ [](session.started =>
            dedup_index <= IF session.loaded = <<>> THEN 0 ELSE Len(session.loaded) - 1)

cursors == <<dedup_index, two_min_index, coach_index>>

(* C36: process_start sets the three cursors to 0; get_dedup_pair moves    *)
(* only the dedup cursor (by one, with the pair it returns), two_min_      *)
(* advance only the quick-win cursor and coach_advance only the coach      *)
(* cursor, each by exactly one; no other operation of the funnel moves a   *)
(* cursor                                                                  *)
C36_CursorsAreIndependent ==
    [][/\ ProcessStart => cursors' = <<0, 0, 0>>
       /\ GetDedupPair =>
            /\ <<two_min_index', coach_index'>> = <<two_min_index, coach_index>>
            /\ dedup_index' = IF returned' = <<>> THEN dedup_index ELSE dedup_index + 1
       /\ TwoMinAdvance => cursors' = <<dedup_index, two_min_index + 1, coach_index>>
       /\ CoachAdvance => cursors' = <<dedup_index, two_min_index, coach_index + 1>>
       /\ ~(ProcessStart \/ GetDedupPair \/ TwoMinAdvance \/ CoachAdvance) =>
            cursors' = cursors]_vars

(* the three cursors stand at different positions after a completion       *)
C36_Witness ==
    /\ dedup_index = 1 /\ two_min_index = 2 /\ coach_index = 3
    /\ \E k \in 1..Len(items) : items[k].status = "done"

(* the quick-win selection of a working set: Engine.get_2min_items *)
Selection(working_set) == FirstN(SelectSeq(working_set, IsNotArchived), TWO_MIN_LIMIT)

(* C37: in a quick-win session where every item get_2min_current returns   *)
(* is handled by do-now, delete or defer and two_min_advance is called     *)
(* once after it, no item is shown twice and, when get_2min_current        *)
(* returns None, the items shown are the selection computed at             *)
(* process_start, each exactly once                                        *)
C37_EveryQuickWinShownOnce ==
    session.started =>
        /\ \A m, n \in 1..Len(session.shown) :
                session.shown[m] = session.shown[n] => m = n
        /\ two_min_index >= Len(Get2MinItems) =>
                Range(session.shown) = {it.id : it \in Range(Selection(session.loaded))}

-----------------------------------------------------------------------------
(* Auto-tagging against foreground writes *)

(* C38: the write of a background auto-tag attempt changes only the        *)
(* item's context_tags: whatever a foreground operation stored in the row  *)
(* while tagging was in flight is still there after the write              *)
C38_TaggingWriteKeepsForegroundEffect ==
    [][\A thread \in tagging :
            TaggingWrite(thread) =>
                /\ Len(items') = Len(items)
                /\ \A k \in 1..Len(items) :
                        items'[k] = [items[k] EXCEPT !.context_tags = items'[k].context_tags]]_vars

-----------------------------------------------------------------------------
(* Drains in parallel *)

(* the worker has handed the current job of its batch to the store *)
Upserting(w) == pc[w] \in {"upsert", "mark_done", "mark_error"}

(* C39: in every interleaving of drains, of threads or of worker           *)
(* processes, a job is moved to processing only from pending, hence at     *)
(* most once, and no two drains hand the same job to the embedding upsert  *)
C39_JobDrainedOnce ==
    /\ [][\A w \in Workers :
            MarkProcessing(w) => jobs[Current(w).id].status = "pending"]_vars
    /\ [](\A v \in Workers, w \in Workers :
            (v # w /\ Upserting(v) /\ Upserting(w)) => Current(v).id # Current(w).id)

-----------------------------------------------------------------------------
(* Progress of the queue *)

(* C40: with the embedding capability available and drains started again   *)
(* and again, every enqueued job eventually is done or error, also when a  *)
(* worker is stopped part-way through a batch                              *)
C40_EveryJobFinishes ==
    \A j \in 1..MaxJobs :
        [](j <= Len(jobs) => <>(j <= Len(jobs) /\ jobs[j].status \in {"done", "error"}))
====
